---- MODULE Spec2Model ----
(***************************************************************************)
(* News aggregation pipeline of news_catcher (news_fetcher.py,             *)
(* funding_fetcher.py, config.py).                                         *)
(*                                                                         *)
(* Text is a sequence of characters.  An ASCII character is the string     *)
(* holding it; any other character is written "uXXXX", its code point.     *)
(***************************************************************************)
EXTENDS Integers, Sequences, FiniteSets, TLC

VARIABLES
    MAX_NEWS_PER_INDUSTRY,  \* config.py: cap on the items of one industry
    MAX_TOTAL_NEWS,         \* config.py: cap on the items of one run
    now,                    \* datetime.now() of the run
    seen_uids,              \* NewsFetcher.seen_uids
    pc,                     \* where fetch_news stands
    all_news,               \* fetch_all: all_news; fetch_news: search_news
    total_count,            \* fetch_all: total_count
    idx,                    \* fetch_all: position of the loop in INDUSTRIES
    kw,                     \* _fetch_industry_news: position in keywords[:2]
    news_items,             \* _fetch_industry_news: news_items
    feed,                   \* fetch_from_rss: position in RSS_FEEDS
    all_items,              \* fetch_from_rss: all_items
    requests,               \* HTTP requests issued, per industry and provider
    accepted,               \* the items _deduplicate returned, in order
    dedup_log,              \* per item handed to _deduplicate: its verdict
    events,                 \* FundingFetcher.fetch_all: events
    matched,                \* FundingFetcher.fetch_all: matched
    by_industry,            \* fetch_funding_events: by_industry
    funding_requests,       \* HTTP requests issued by FundingFetcher
    calls,                  \* calls of the date checks and classifiers
    outcome,                \* what the last provider call met
    job,                    \* run_news_job: its argument, locals and calls
    bot                     \* the FeishuBot instance and the calls on it

vars ==
    <<MAX_NEWS_PER_INDUSTRY, MAX_TOTAL_NEWS, now, seen_uids, pc, all_news,
      total_count, idx, kw, news_items, feed, all_items, requests, accepted,
      dedup_log, events, matched, by_industry, funding_requests, calls,
      outcome, job, bot>>

\* what FundingFetcher and the single calls work on
funding == <<events, matched, by_industry, funding_requests, calls>>

\* run_news_job before its first statement: the calls it made, in order,
\* the summaries it holds and what it returned
NoJob ==
    [test_mode |-> FALSE, called |-> <<>>, summaries |-> <<>>,
     returned |-> "none"]

\* FeishuBot.__init__: no message id processed; handle_event not called
\* yet, nothing replied, no analysis started
NewBot ==
    [processed_message_ids |-> {}, handling |-> <<>>, replies |-> <<>>,
     analyses |-> <<>>]

\* ------------------------------------------------------------------------
\* Characters used by the patterns of news_fetcher.py
\* ------------------------------------------------------------------------
nian == "u5e74"     \* U+5E74 year
yue == "u6708"      \* U+6708 month
ri == "u65e5"       \* U+65E5 day of month
tian == "u5929"     \* U+5929 day(s)
ge == "u4e2a"       \* U+4E2A measure word of "ge yue" (months)
qian == "u524d"     \* U+524D ago
xiao == "u5c0f"     \* U+5C0F \  "xiao shi": hours
shi == "u65f6"      \* U+65F6 /
fen == "u5206"      \* U+5206 \  "fen zhong": minutes
zhong == "u949f"    \* U+949F /

Digits == {"0", "1", "2", "3", "4", "5", "6", "7", "8", "9"}

\* \s of Python's re on str: the whitespace that occurs in the modelled
\* pages (space, tab, newline, ideographic space U+3000).
Spaces == {" ", "\t", "\n", "u3000"}

DigitVal(c) ==
    CASE c = "0" -> 0 [] c = "1" -> 1 [] c = "2" -> 2 [] c = "3" -> 3
      [] c = "4" -> 4 [] c = "5" -> 5 [] c = "6" -> 6 [] c = "7" -> 7
      [] c = "8" -> 8 [] c = "9" -> 9

RECURSIVE ToInt(_)
\* int(s) for a run of decimal digits
ToInt(s) ==
    IF s = <<>> THEN 0
    ELSE 10 * ToInt(SubSeq(s, 1, Len(s) - 1)) + DigitVal(s[Len(s)])

\* ------------------------------------------------------------------------
\* re.search for the patterns of the source: a pattern is a sequence of
\* elements, each a character class repeated lo..hi times (greedy, with
\* backtracking).  Unbounded repetition has hi = -1.
\* ------------------------------------------------------------------------
Lit(c) == [cls |-> {c}, lo |-> 1, hi |-> 1]
D(lo, hi) == [cls |-> Digits, lo |-> lo, hi |-> hi]
Ws(lo) == [cls |-> Spaces, lo |-> lo, hi |-> -1]
DPlus == [cls |-> Digits, lo |-> 1, hi |-> -1]

RECURSIVE Run(_, _, _, _)
\* how many characters of text from position i on are in cls, at most hi
Run(cls, text, i, hi) ==
    IF hi = 0 \/ i > Len(text) \/ text[i] \notin cls THEN 0
    ELSE 1 + Run(cls, text, i + 1, hi - 1)

NoMatch == [ok |-> FALSE, start |-> 0, ends |-> <<>>]

RECURSIVE MatchFrom(_, _, _, _)
RECURSIVE TryCount(_, _, _, _, _)
\* element k of pattern matched against j characters at i, then fewer
TryCount(pattern, k, text, i, j) ==
    IF j < pattern[k].lo THEN NoMatch
    ELSE LET rest == MatchFrom(pattern, k + 1, text, i + j)
         IN  IF rest.ok
             THEN [ok |-> TRUE, start |-> i, ends |-> <<i + j>> \o rest.ends]
             ELSE TryCount(pattern, k, text, i, j - 1)

\* elements k.. of pattern matched at position i: ends[n] is the position
\* after the n-th of these elements
MatchFrom(pattern, k, text, i) ==
    IF k > Len(pattern) THEN [ok |-> TRUE, start |-> i, ends |-> <<>>]
    ELSE TryCount(pattern, k, text, i,
                  Run(pattern[k].cls, text, i, pattern[k].hi))

RECURSIVE SearchFrom(_, _, _)
SearchFrom(pattern, text, s) ==
    IF s > Len(text) + 1 THEN NoMatch
    ELSE LET m == MatchFrom(pattern, 1, text, s)
         IN  IF m.ok THEN m ELSE SearchFrom(pattern, text, s + 1)

\* re.search(pattern, text): the leftmost match
re_search(pattern, text) == SearchFrom(pattern, text, 1)

\* the text matched by element k of the pattern in match m
Group(m, text, k) ==
    SubSeq(text, IF k = 1 THEN m.start ELSE m.ends[k - 1], m.ends[k] - 1)

\* ------------------------------------------------------------------------
\* datetime
\* ------------------------------------------------------------------------
IsLeap(y) == (y % 4 = 0 /\ y % 100 # 0) \/ y % 400 = 0

DaysInMonth(y, m) ==
    CASE m \in {1, 3, 5, 7, 8, 10, 12} -> 31
      [] m \in {4, 6, 9, 11} -> 30
      [] m = 2 -> IF IsLeap(y) THEN 29 ELSE 28

\* datetime(y, m, d) raises ValueError unless this holds
ValidDate(y, m, d) ==
    /\ y \in 1..9999
    /\ m \in 1..12
    /\ d >= 1 /\ d <= DaysInMonth(y, m)

RECURSIVE DaysBeforeMonth(_, _)
DaysBeforeMonth(y, m) ==
    IF m = 1 THEN 0 ELSE DaysBeforeMonth(y, m - 1) + DaysInMonth(y, m - 1)

\* date.toordinal()
Ordinal(y, m, d) ==
    LET p == y - 1
    IN  365 * p + (p \div 4) - (p \div 100) + (p \div 400)
        + DaysBeforeMonth(y, m) + d

\* datetime(y, m, d) < at - timedelta(days): the left side is a midnight
MidnightBefore(y, m, d, at, days) ==
    LET lhs == Ordinal(y, m, d)
        rhs == Ordinal(at.year, at.month, at.day) - days
    IN  \/ lhs < rhs
        \/ /\ lhs = rhs
           /\ (at.hour > 0 \/ at.minute > 0 \/ at.second > 0
               \/ at.microsecond > 0)

\* ------------------------------------------------------------------------
\* NewsFetcher._is_news_too_old
\* ------------------------------------------------------------------------
NEWS_MAX_AGE_DAYS == 3

\* r'(\d{4})<nian>(\d{1,2})<yue>(\d{1,2})<ri>'
ReDateCn == <<D(4, 4), Lit(nian), D(1, 2), Lit(yue), D(1, 2), Lit(ri)>>
\* r'(\d{4})-(\d{2})-(\d{2})'
ReDateIso == <<D(4, 4), Lit("-"), D(2, 2), Lit("-"), D(2, 2)>>
\* r'(\d+)\s*<tian>'
ReDays == <<DPlus, Ws(0), Lit(tian)>>
\* r'\d+\s*<ge><yue>'
ReMonths == <<DPlus, Ws(0), Lit(ge), Lit(yue)>>

\* a test that holds the cutoff day itself stale
DaysTooOldInclusive(days_ago) == days_ago >= NEWS_MAX_AGE_DAYS

\* if days_ago > NEWS_MAX_AGE_DAYS: return True
DaysTooOld(days_ago) == days_ago > NEWS_MAX_AGE_DAYS

\* one pass of the loop body over a text of check_texts: TRUE when the body
\* executes `return True`
TextSaysTooOld(text, at) ==
    LET cn == re_search(ReDateCn, text)
        iso == re_search(ReDateIso, text)
        days == re_search(ReDays, text)
        DateOld(m, ky, km, kd) ==
            LET y == ToInt(Group(m, text, ky))
                mo == ToInt(Group(m, text, km))
                d == ToInt(Group(m, text, kd))
            IN  /\ ValidDate(y, mo, d)
                /\ MidnightBefore(y, mo, d, at, NEWS_MAX_AGE_DAYS)
    IN  \/ cn.ok /\ DateOld(cn, 1, 3, 5)
        \/ iso.ok /\ DateOld(iso, 1, 3, 5)
        \/ days.ok /\ DaysTooOld(ToInt(Group(days, text, 1)))
        \/ re_search(ReMonths, text).ok

\* for text in [item.publish_time, item.summary]: skip empty text; return
\* True at the first stale verdict; fall through to return False
_is_news_too_old(item, at) ==
    \/ item.publish_time # <<>> /\ TextSaysTooOld(item.publish_time, at)
    \/ item.summary # <<>> /\ TextSaysTooOld(item.summary, at)


\* ------------------------------------------------------------------------
\* config.py: INDUSTRIES (its first three entries, in declaration order),
\* RSS_FEEDS (its first two entries)
\* ------------------------------------------------------------------------
Name_rengongzhineng == <<"u4eba", "u5de5", "u667a", "u80fd">>
Keywords_rengongzhineng ==
    <<<<"u4eba", "u5de5", "u667a", "u80fd">>,
      <<"A", "I", "u5927", "u6a21", "u578b">>,
      <<"u6df1", "u5ea6", "u5b66", "u4e60">>,
      <<"u673a", "u5668", "u5b66", "u4e60">>,
      <<"A", "I", "G", "C">>,
      <<"u751f", "u6210", "u5f0f", "A", "I">>,
      <<"u667a", "u80fd", "u7b97", "u529b">>,
      <<"u5927", "u8bed", "u8a00", "u6a21", "u578b">>>>
Name_bandaoti == <<"u534a", "u5bfc", "u4f53", "u4e0e", "u82af", "u7247">>
Keywords_bandaoti ==
    <<<<"u534a", "u5bfc", "u4f53">>,
      <<"u82af", "u7247">>,
      <<"u96c6", "u6210", "u7535", "u8def">>,
      <<"u5149", "u523b", "u673a">>,
      <<"E", "D", "A">>,
      <<"u5148", "u8fdb", "u5c01", "u88c5">>,
      <<"u6676", "u5706">>,
      <<"u56fd", "u4ea7", "u82af", "u7247">>>>
Name_xinnengyuan == <<"u65b0", "u80fd", "u6e90">>
Keywords_xinnengyuan ==
    <<<<"u65b0", "u80fd", "u6e90">>,
      <<"u5149", "u4f0f">>,
      <<"u98ce", "u7535">>,
      <<"u50a8", "u80fd">>,
      <<"u6c22", "u80fd">>,
      <<"u65b0", "u80fd", "u6e90", "u6c7d", "u8f66">>,
      <<"u52a8", "u529b", "u7535", "u6c60">>,
      <<"u5145", "u7535", "u6869">>>>

INDUSTRIES ==
    <<[name |-> Name_rengongzhineng, keywords |-> Keywords_rengongzhineng],
      [name |-> Name_bandaoti, keywords |-> Keywords_bandaoti],
      [name |-> Name_xinnengyuan, keywords |-> Keywords_xinnengyuan]>>

\* the source names "Caixin wang" and "36 ke"
RSS_FEEDS ==
    <<<<"u8d22", "u65b0", "u7f51">>, <<"3", "6", "u6c2a">>>>

\* ------------------------------------------------------------------------
\* NewsItem
\* ------------------------------------------------------------------------
NewsItem(title, url, source, industry, summary, publish_time, at) ==
    [title |-> title, url |-> url, source |-> source, industry |-> industry,
     summary |-> summary, publish_time |-> publish_time,
     fetched_at |-> [year |-> at.year, month |-> at.month, day |-> at.day,
                     hour |-> at.hour, minute |-> at.minute,
                     second |-> at.second]]

\* titles of the modelled pages
TitleAiChip ==
    <<"u4eba", "u5de5", "u667a", "u80fd", "u82af", "u7247", "u7a81",
      "u7834">>
TitleChip == <<"u56fd", "u4ea7", "u82af", "u7247", "u91cf", "u4ea7">>
TitleStock == <<"u4eca", "u65e5", "u80a1", "u5e02", "u884c", "u60c5">>
TitlePv == <<"u5149", "u4f0f", "u88c5", "u673a", "u589e", "u957f">>
TitleStorage == <<"u50a8", "u80fd", "u7535", "u7ad9", "u6295", "u8fd0">>
TitleShort == <<"u5feb", "u8baf">>
\* the two characters "xin pian", a headline an RSS feed may carry
TitleShortChip == <<"u82af", "u7247">>

\* hashlib.md5(s.encode("utf-8")).hexdigest() of the titles above
md5(s) ==
    CASE s = TitleAiChip -> "31d4be03cf4cec37591f47c3e95c7be1"
      [] s = TitleChip -> "3fea3ff4c9730fa0440b7b6408127de8"
      [] s = TitleStock -> "6f1a56a04376ca32ed6a14b127b648cb"
      [] s = TitlePv -> "7fbf00a286837c8278f1243eab0e2420"
      [] s = TitleStorage -> "587e0cf1c1acd2129656eac3ef9bfd01"
      [] s = TitleShort -> "da6760cf26ec6aaa3928f4d96ebff9f2"
      [] s = TitleShortChip -> "1088e7674dbae5e7f74fc1f36f48d117"

\* a fingerprint that also hashes the url
uid_of_title_and_url(item) == <<md5(item.title), item.url>>

\* NewsItem.uid
uid(item) == md5(item.title)

\* ------------------------------------------------------------------------
\* NewsFetcher._match_industry
\* ------------------------------------------------------------------------
\* keyword in text
Contains(keyword, text) ==
    \E i \in 1..(Len(text) - Len(keyword) + 1) :
        SubSeq(text, i, i + Len(keyword) - 1) = keyword

\* None, and the empty string: both are false in `if matched_industry:`
None == <<>>

\* loops that let the last matching entry win
MatchIndustryLast(text, i, k) ==
    LET hits == {j \in i..Len(INDUSTRIES) :
                    \E n \in 1..Len(INDUSTRIES[j].keywords) :
                        Contains(INDUSTRIES[j].keywords[n], text)}
    IN  IF hits = {} THEN None
        ELSE INDUSTRIES[CHOOSE j \in hits : \A h \in hits : h <= j].name

RECURSIVE MatchIndustryFrom(_, _, _)
\* the loops of _match_industry from industry i, keyword k on
MatchIndustryFrom(text, i, k) ==
    IF i > Len(INDUSTRIES) THEN None
    ELSE IF k > Len(INDUSTRIES[i].keywords)
         THEN MatchIndustryFrom(text, i + 1, 1)
         ELSE IF Contains(INDUSTRIES[i].keywords[k], text)
              THEN INDUSTRIES[i].name
              ELSE MatchIndustryFrom(text, i, k + 1)

_match_industry(text) == MatchIndustryFrom(text, 1, 1)

\* ------------------------------------------------------------------------
\* NewsFetcher._deduplicate
\* ------------------------------------------------------------------------
RECURSIVE DedupRecordFirst(_, _, _, _)
\* a _deduplicate that records the fingerprint before the staleness check
DedupRecordFirst(items, k, acc, at) ==
    IF k > Len(items) THEN acc
    ELSE LET item == items[k]
         IN  IF uid(item) \in acc.seen_uids
             THEN DedupRecordFirst(items, k + 1,
                    [acc EXCEPT !.log = Append(@, "seen")], at)
             ELSE IF _is_news_too_old(item, at)
                  THEN DedupRecordFirst(items, k + 1,
                         [acc EXCEPT !.seen_uids = @ \cup {uid(item)},
                                     !.log = Append(@, "too_old")], at)
                  ELSE DedupRecordFirst(items, k + 1,
                         [unique_items |-> Append(acc.unique_items, item),
                          seen_uids |-> acc.seen_uids \cup {uid(item)},
                          log |-> Append(acc.log, "accepted")], at)

RECURSIVE DedupNoRecord(_, _, _, _)
\* a _deduplicate that never records a fingerprint
DedupNoRecord(items, k, acc, at) ==
    IF k > Len(items) THEN acc
    ELSE LET item == items[k]
         IN  IF uid(item) \in acc.seen_uids
             THEN DedupNoRecord(items, k + 1,
                    [acc EXCEPT !.log = Append(@, "seen")], at)
             ELSE IF _is_news_too_old(item, at)
                  THEN DedupNoRecord(items, k + 1,
                         [acc EXCEPT !.log = Append(@, "too_old")], at)
                  ELSE DedupNoRecord(items, k + 1,
                         [unique_items |-> Append(acc.unique_items, item),
                          seen_uids |-> acc.seen_uids,
                          log |-> Append(acc.log, "accepted")], at)

RECURSIVE DedupLoop(_, _, _, _)
\* the loop of _deduplicate from item k on; acc holds unique_items, the
\* fetcher's seen_uids and, per item met, which branch it took
DedupLoop(items, k, acc, at) ==
    IF k > Len(items) THEN acc
    ELSE LET item == items[k]
         IN  IF uid(item) \in acc.seen_uids
             THEN DedupLoop(items, k + 1,
                    [acc EXCEPT !.log = Append(@, "seen")], at)
             ELSE IF _is_news_too_old(item, at)
                  THEN DedupLoop(items, k + 1,
                         [acc EXCEPT !.log = Append(@, "too_old")], at)
                  ELSE DedupLoop(items, k + 1,
                         [unique_items |-> Append(acc.unique_items, item),
                          seen_uids |-> acc.seen_uids \cup {uid(item)},
                          log |-> Append(acc.log, "accepted")], at)

\* a _deduplicate whose set of seen fingerprints lives for one call only
DedupPerCall(items, seen, at) ==
    LET res == DedupLoop(items, 1,
                   [unique_items |-> <<>>, seen_uids |-> {}, log |-> <<>>],
                   at)
    IN  [res EXCEPT !.seen_uids = seen \cup @]

_deduplicate(items, seen, at) ==
    DedupLoop(items, 1,
              [unique_items |-> <<>>, seen_uids |-> seen, log |-> <<>>], at)

\* ------------------------------------------------------------------------
\* Text helpers of the provider parsers
\* ------------------------------------------------------------------------
RECURSIVE StripTagsFrom(_, _)
\* re.sub(r'<[^>]+>', '', text) from position i on
StripTagsFrom(text, i) ==
    IF i > Len(text) THEN <<>>
    ELSE LET RECURSIVE Inner(_)
             \* the characters other than ">" from position j on
             Inner(j) == IF j > Len(text) \/ text[j] = ">" THEN 0
                         ELSE 1 + Inner(j + 1)
             n == Inner(i + 1)
         IN  IF text[i] = "<" /\ n >= 1 /\ i + n + 1 <= Len(text)
             THEN StripTagsFrom(text, i + n + 2)
             ELSE <<text[i]>> \o StripTagsFrom(text, i + 1)

StripTags(text) == StripTagsFrom(text, 1)

RECURSIVE Strip(_)
\* str.strip()
Strip(text) ==
    IF text = <<>> THEN text
    ELSE IF text[1] \in Spaces THEN Strip(Tail(text))
    ELSE IF text[Len(text)] \in Spaces
         THEN Strip(SubSeq(text, 1, Len(text) - 1))
    ELSE text

\* text[:n]
Prefix(text, n) == SubSeq(text, 1, IF Len(text) < n THEN Len(text) ELSE n)

\* the non-empty texts of a list of spans
TextSpans(spans) == SelectSeq(spans, LAMBDA t : Strip(t) # <<>>)

\* urljoin(base, url) for a url that starts with "/"
UrlJoin(base, url) == base \o url

MinTitleLen == 4
SummaryMax == 200

\* the text a match covers: match.group()
Whole(m, text, pattern) == SubSeq(text, m.start, m.ends[Len(pattern)] - 1)

\* NewsFetcher._extract_time: its patterns, in order
ExtractTimePatterns ==
    <<
      \* r'\d{4}-\d{2}-\d{2}\s+\d{2}:\d{2}'
      <<D(4, 4), Lit("-"), D(2, 2), Lit("-"), D(2, 2), Ws(1), D(2, 2),
        Lit(":"), D(2, 2)>>,
      \* r'\d{4}<nian>\d{1,2}<yue>\d{1,2}<ri>'
      <<D(4, 4), Lit(nian), D(1, 2), Lit(yue), D(1, 2), Lit(ri)>>,
      \* r'\d{1,2}<xiao><shi><qian>'
      <<D(1, 2), Lit(xiao), Lit(shi), Lit(qian)>>,
      \* r'\d{1,2}<fen><zhong><qian>'
      <<D(1, 2), Lit(fen), Lit(zhong), Lit(qian)>>,
      \* r'\d{1,2}<tian><qian>'
      <<D(1, 2), Lit(tian), Lit(qian)>>,
      \* r'<jin><tian>\s*\d{2}:\d{2}'   (today)
      <<Lit("u4eca"), Lit(tian), Ws(0), D(2, 2), Lit(":"), D(2, 2)>>,
      \* r'<zuo><tian>\s*\d{2}:\d{2}'   (yesterday)
      <<Lit("u6628"), Lit(tian), Ws(0), D(2, 2), Lit(":"), D(2, 2)>>
    >>

RECURSIVE ExtractTimeFrom(_, _)
ExtractTimeFrom(text, k) ==
    IF k > Len(ExtractTimePatterns) THEN <<>>
    ELSE LET m == re_search(ExtractTimePatterns[k], text)
         IN  IF m.ok THEN Whole(m, text, ExtractTimePatterns[k])
             ELSE ExtractTimeFrom(text, k + 1)

_extract_time(text) == ExtractTimeFrom(text, 1)

\* ------------------------------------------------------------------------
\* The provider parsers.  A raw result is what the selectors of a parser
\* read from one result element of the page: the title link's text and
\* href, the summary element's text, and the texts of the source and time
\* spans (each empty when the element is absent).
\* ------------------------------------------------------------------------
SogouBase ==
    <<"h", "t", "t", "p", "s", ":", "/", "/", "n", "e", "w", "s", ".",
      "s", "o", "g", "o", "u", ".", "c", "o", "m">>
BingBase ==
    <<"h", "t", "t", "p", "s", ":", "/", "/", "w", "w", "w", ".", "b",
      "i", "n", "g", ".", "c", "o", "m">>
SourceSogou == <<"u641c", "u72d7", "u65b0", "u95fb">>   \* "Sogou xinwen"
SourceBaidu == <<"u767e", "u5ea6", "u65b0", "u95fb">>   \* "Baidu xinwen"
SourceBing == <<"B", "i", "n", "g", "u65b0", "u95fb">>  \* "Bing xinwen"

\* _fetch_from_sogou_news: the item of one result element, <<>> when the
\* element is skipped
SogouItem(raw, industry, at) ==
    LET title == Strip(StripTags(Strip(raw.title)))
        url == IF raw.url # <<>> /\ raw.url[1] = "/"
               THEN UrlJoin(SogouBase, raw.url) ELSE raw.url
        summary == Prefix(StripTags(Strip(raw.summary)), SummaryMax)
        text_spans == TextSpans(<<raw.source, raw.time>>)
        source_text == IF text_spans # <<>> THEN Strip(text_spans[1])
                       ELSE SourceSogou
        publish_time == IF Len(text_spans) > 1
                        THEN Strip(text_spans[Len(text_spans)]) ELSE <<>>
    IN  IF title = <<>> \/ Len(title) < MinTitleLen \/ raw.url = <<>>
        THEN <<>>
        ELSE <<NewsItem(title, url, source_text, industry, summary,
                        publish_time, at)>>

\* _fetch_from_baidu_news; the container's text holds the title, the
\* summary, the source and the time
BaiduItem(raw, industry, at) ==
    LET title == Strip(StripTags(Strip(raw.title)))
        summary == Prefix(StripTags(Strip(raw.summary)), SummaryMax)
        source_text == IF Strip(raw.source) # <<>> THEN Strip(raw.source)
                       ELSE SourceBaidu
        full_text == Strip(raw.title \o raw.summary \o raw.source
                           \o raw.time)
    IN  IF title = <<>> \/ Len(title) < MinTitleLen \/ raw.url = <<>>
        THEN <<>>
        ELSE <<NewsItem(title, raw.url, source_text, industry, summary,
                        _extract_time(full_text), at)>>

\* r'\d+\s*(<xiao><shi>|<fen><zhong>|<tian>|<ge><yue>|<miao>)'
LooksLikeTime(t) ==
    \/ re_search(<<DPlus, Ws(0), Lit(xiao), Lit(shi)>>, t).ok
    \/ re_search(<<DPlus, Ws(0), Lit(fen), Lit(zhong)>>, t).ok
    \/ re_search(<<DPlus, Ws(0), Lit(tian)>>, t).ok
    \/ re_search(<<DPlus, Ws(0), Lit(ge), Lit(yue)>>, t).ok
    \/ re_search(<<DPlus, Ws(0), Lit("u79d2")>>, t).ok

\* _fetch_from_bing_news
BingItem(raw, industry, at) ==
    LET title == Strip(raw.title)
        url == IF raw.url # <<>> /\ raw.url[1] = "/"
               THEN UrlJoin(BingBase, raw.url) ELSE raw.url
        text_spans == TextSpans(<<raw.source, raw.time>>)
        named == SelectSeq(text_spans, LAMBDA t : ~LooksLikeTime(t))
        source_text == IF named # <<>> THEN Strip(named[1]) ELSE SourceBing
        publish_time == IF text_spans # <<>>
                        THEN Strip(text_spans[Len(text_spans)]) ELSE <<>>
    IN  IF title = <<>> \/ raw.url = <<>>
        THEN <<>>
        ELSE <<NewsItem(title, url, source_text, industry,
                        Strip(raw.summary), publish_time, at)>>

RECURSIVE ParseResults(_, _)
\* for item in result_items[:MAX_NEWS_PER_INDUSTRY]: ... news_items.append;
\* parsed[k] is what the loop body appends for the k-th result element
ParseResults(parsed, k) ==
    IF k > Len(parsed) \/ k > MAX_NEWS_PER_INDUSTRY THEN <<>>
    ELSE parsed[k] \o ParseResults(parsed, k + 1)

\* the list a provider method returns for a response; a response that is
\* no HTTP 200, and a request that raises, give the empty list
_fetch_from_sogou_news(resp, industry, at) ==
    IF resp.raised \/ resp.status_code # 200 THEN <<>>
    ELSE ParseResults([k \in 1..Len(resp.results) |->
                          SogouItem(resp.results[k], industry, at)], 1)

_fetch_from_baidu_news(resp, industry, at) ==
    IF resp.raised \/ resp.status_code # 200 THEN <<>>
    ELSE ParseResults([k \in 1..Len(resp.results) |->
                          BaiduItem(resp.results[k], industry, at)], 1)

_fetch_from_bing_news(resp, industry, at) ==
    IF resp.raised \/ resp.status_code # 200 THEN <<>>
    ELSE ParseResults([k \in 1..Len(resp.results) |->
                          BingItem(resp.results[k], industry, at)], 1)

\* ------------------------------------------------------------------------
\* NewsFetcher.fetch_from_rss: the items of one feed
\* ------------------------------------------------------------------------
RssMaxEntries == 20

\* the entry is kept under any label when the classifier finds none
RssItemDefaultLabel(entry, source_name, at) ==
    LET summary == Prefix(StripTags(entry.summary), SummaryMax)
        matched_industry == _match_industry(entry.title \o summary)
    IN  IF entry.title = <<>> \/ entry.url = <<>> THEN <<>>
        ELSE <<NewsItem(entry.title, entry.url, source_name,
                        IF matched_industry # None THEN matched_industry
                        ELSE INDUSTRIES[1].name,
                        summary, entry.time, at)>>

RssItem(entry, source_name, at) ==
    LET summary == Prefix(StripTags(entry.summary), SummaryMax)
        matched_industry == _match_industry(entry.title \o summary)
    IN  IF entry.title = <<>> \/ entry.url = <<>> THEN <<>>
        ELSE IF matched_industry # None
             THEN <<NewsItem(entry.title, entry.url, source_name,
                             matched_industry, summary, entry.time, at)>>
             ELSE <<>>

RECURSIVE RssEntries(_, _, _, _)
\* for entry in feed.entries[:20]
RssEntries(entries, k, source_name, at) ==
    IF k > Len(entries) \/ k > RssMaxEntries THEN <<>>
    ELSE RssItem(entries[k], source_name, at)
         \o RssEntries(entries, k + 1, source_name, at)

\* what one pass of the loop over RSS_FEEDS appends to all_items
RssFeedItems(resp, source_name, at) ==
    IF resp.raised \/ (resp.bozo /\ resp.results = <<>>) THEN <<>>
    ELSE RssEntries(resp.results, 1, source_name, at)

\* ------------------------------------------------------------------------
\* dict, in insertion order: a sequence of [key, value]
\* ------------------------------------------------------------------------
Keys(d) == [i \in 1..Len(d) |-> d[i].key]

Has(d, key) == \E i \in 1..Len(d) : d[i].key = key

\* d[key] for a key of d; d.get(key, []) in general
Get(d, key) ==
    IF Has(d, key)
    THEN d[CHOOSE i \in 1..Len(d) : d[i].key = key].value
    ELSE <<>>

\* d[key] = value
Put(d, key, value) ==
    IF Has(d, key)
    THEN [i \in 1..Len(d) |->
            IF d[i].key = key THEN [key |-> key, value |-> value] ELSE d[i]]
    ELSE Append(d, [key |-> key, value |-> value])

RECURSIVE CountItems(_)
\* the number of items of a mapping
CountItems(d) ==
    IF d = <<>> THEN 0 ELSE Len(d[1].value) + CountItems(Tail(d))

\* ------------------------------------------------------------------------
\* fetch_all: the loop guard and what follows _fetch_industry_news
\* ------------------------------------------------------------------------
\* a guard that lets one more industry through
LimitExceeded(count) == count > MAX_TOTAL_NEWS

\* if total_count >= MAX_TOTAL_NEWS: break
LimitReached(count) == count >= MAX_TOTAL_NEWS

\* a store that keeps all of industry_news
StoreIndustryUncut(d, industry, industry_news) ==
    IF industry_news # <<>> THEN Put(d, industry, industry_news) ELSE d

\* if industry_news: all_news[industry] = industry_news[:MAX_NEWS_PER_INDUSTRY]
StoreIndustry(d, industry, industry_news) ==
    IF industry_news # <<>>
    THEN Put(d, industry, Prefix(industry_news, MAX_NEWS_PER_INDUSTRY))
    ELSE d

\* ------------------------------------------------------------------------
\* fetch_news: the merge of rss_news into search_news
\* ------------------------------------------------------------------------
RECURSIVE MergeRssUncapped(_, _, _)
\* a merge that appends whatever the length of the list
MergeRssUncapped(search_news, rss_news, k) ==
    IF k > Len(rss_news) THEN search_news
    ELSE LET item == rss_news[k]
         IN  MergeRssUncapped(
                 Put(search_news, item.industry,
                     Append(Get(search_news, item.industry), item)),
                 rss_news, k + 1)

RECURSIVE MergeRss(_, _, _)
\* for item in rss_news: ... from item k on
MergeRss(search_news, rss_news, k) ==
    IF k > Len(rss_news) THEN search_news
    ELSE LET item == rss_news[k]
             merged ==
                 IF Has(search_news, item.industry)
                 THEN IF Len(Get(search_news, item.industry))
                            < MAX_NEWS_PER_INDUSTRY
                      THEN Put(search_news, item.industry,
                               Append(Get(search_news, item.industry), item))
                      ELSE search_news
                 ELSE Put(search_news, item.industry, <<item>>)
         IN  MergeRss(merged, rss_news, k + 1)

\* ------------------------------------------------------------------------
\* The pages the providers answer with
\* ------------------------------------------------------------------------
Url1 == <<"/", "l", "i", "n", "k", "?", "u", "=", "1">>
Url2 == <<"h", "t", "t", "p", ":", "/", "/", "a", ".", "c", "n", "/", "2">>
Url3 == <<"h", "t", "t", "p", ":", "/", "/", "a", ".", "c", "n", "/", "3">>
Url4 == <<"h", "t", "t", "p", ":", "/", "/", "b", ".", "c", "n", "/", "4">>
Url5 == <<"h", "t", "t", "p", ":", "/", "/", "b", ".", "c", "n", "/", "5">>
Url6 == <<"h", "t", "t", "p", ":", "/", "/", "c", ".", "c", "n", "/", "6">>
Url7 == <<"h", "t", "t", "p", ":", "/", "/", "c", ".", "c", "n", "/", "7">>
Url8 == <<"h", "t", "t", "p", ":", "/", "/", "c", ".", "c", "n", "/", "8">>
SourceXinhua == <<"u65b0", "u534e", "u7f51">>            \* "Xinhua wang"
Time1HourAgo == <<"1", xiao, shi, qian>>
Time2HoursAgo == <<"2", xiao, shi, qian>>
Time5DaysAgo == <<"5", tian, qian>>
Time3DaysAgo == <<"3", tian, qian>>
TimeIsoRecent == <<"2", "0", "2", "5", "-", "0", "3", "-", "0", "9">>
\* "founded on 2020-1-1" written with nian, yue, ri
SummaryFounded ==
    <<"u6210", "u7acb", "u4e8e", "2", "0", "2", "0", nian, "1", yue, "1",
      ri>>

Raw(title, url, summary, source, time) ==
    [title |-> title, url |-> url, summary |-> summary, source |-> source,
     time |-> time]

RawAiFresh == Raw(TitleAiChip, Url1, <<>>, SourceXinhua, Time1HourAgo)
RawAiOld == Raw(TitleAiChip, Url2, <<>>, SourceXinhua, Time5DaysAgo)
RawStock == Raw(TitleStock, Url3, <<>>, <<>>, <<>>)
RawChipFounded ==
    Raw(TitleChip, Url4, SummaryFounded, SourceXinhua, Time2HoursAgo)
RawChip == Raw(TitleChip, Url5, <<>>, SourceXinhua, TimeIsoRecent)
RawPv == Raw(TitlePv, Url6, <<>>, SourceXinhua, Time3DaysAgo)
RawStorage == Raw(TitleStorage, Url7, <<>>, SourceXinhua, <<>>)
RawShort == Raw(TitleShort, Url8, <<>>, SourceXinhua, Time1HourAgo)
RawShortChip == Raw(TitleShortChip, Url8, <<>>, <<>>, TimeIsoRecent)

RawResults ==
    {RawAiFresh, RawAiOld, RawStock, RawChipFounded, RawChip, RawPv,
     RawStorage, RawShort}

SearchPages ==
    {<<RawAiFresh, RawStock, RawAiOld, RawShort>>,
     <<RawChip, RawPv, RawChipFounded>>}

RssPages ==
    {<<RawPv, RawStorage, RawStock, RawShortChip>>,
     <<RawAiOld, RawChip, RawAiFresh>>}

\* requests.get: a page, an HTTP error, or a RequestException
SearchResponses ==
    {[raised |-> FALSE, status_code |-> 200, results |-> p] :
        p \in SearchPages}
    \cup {[raised |-> FALSE, status_code |-> 503, results |-> <<>>],
          [raised |-> TRUE, status_code |-> 0, results |-> <<>>]}

\* feedparser.parse: entries, a bozo feed with or without entries, or an
\* exception
RssResponses ==
    {[raised |-> FALSE, bozo |-> b, results |-> p] :
        b \in BOOLEAN, p \in RssPages}
    \cup {[raised |-> FALSE, bozo |-> TRUE, results |-> <<>>],
          [raised |-> TRUE, bozo |-> FALSE, results |-> <<>>]}

Now0 ==
    [year |-> 2025, month |-> 3, day |-> 10, hour |-> 10, minute |-> 30,
     second |-> 0, microsecond |-> 0]

\* the values config.py may give the two caps
MaxPerIndustryCfg == 2
MaxTotalCfg == 3

NoRequests ==
    [i \in 1..Len(INDUSTRIES) |-> [sogou |-> 0, baidu |-> 0, bing |-> 0]]

\* ------------------------------------------------------------------------
\* fetch_news(): one run
\* ------------------------------------------------------------------------
Init ==
    /\ MAX_NEWS_PER_INDUSTRY \in 1..MaxPerIndustryCfg
    /\ MAX_TOTAL_NEWS \in 1..MaxTotalCfg
    /\ now = Now0
    /\ seen_uids = {}
    /\ pc = "fetch_all"
    /\ all_news = <<>>
    /\ total_count = 0
    /\ idx = 1
    /\ kw = 1
    /\ news_items = <<>>
    /\ feed = 1
    /\ all_items = <<>>
    /\ requests = NoRequests
    /\ accepted = <<>>
    /\ dedup_log = <<>>
    /\ events = <<>>
    /\ matched = <<>>
    /\ by_industry = <<>>
    /\ funding_requests = <<>>
    /\ calls = <<>>
    /\ outcome = "none"
    /\ job = NoJob
    /\ bot = NewBot

config == <<MAX_NEWS_PER_INDUSTRY, MAX_TOTAL_NEWS, now>>

\* keywords[:2]
BaiduKeywords == 2

\* what a search or list request met
SearchOutcome(resp) ==
    IF resp.raised THEN "raised"
    ELSE IF resp.status_code # 200 THEN "non_200"
    ELSE "ok"

\* what feedparser.parse met: feed.bozo is set when the feed is not
\* well-formed, and feed.entries holds what could still be read of it
RssOutcome(resp) ==
    IF resp.raised THEN "raised"
    ELSE IF resp.bozo /\ resp.results = <<>> THEN "malformed"
    ELSE IF resp.bozo THEN "malformed_entries"
    ELSE "ok"

\* a try statement whose except clause lets the exception go by
AfterTryUncaught(resp, next) == IF resp.raised THEN "raised" ELSE next

\* try: ... except Exception as e: logger.error(...): where control stands
\* after the statement, however the call under try ended
AfterTry(resp, next) == next

\* fetch_all enters its loop body for INDUSTRIES[idx]; _fetch_industry_news
\* asks Sogou for keywords[0]
FetchSogou ==
    /\ pc = "fetch_all"
    /\ idx <= Len(INDUSTRIES)
    /\ ~LimitReached(total_count)
    /\ \E resp \in SearchResponses :
         /\ news_items' =
                _fetch_from_sogou_news(resp, INDUSTRIES[idx].name, now)
         /\ outcome' = SearchOutcome(resp)
         /\ pc' = AfterTry(resp, "baidu")
    /\ requests' = [requests EXCEPT ![idx].sogou = @ + 1]
    /\ kw' = 1
    /\ UNCHANGED <<job, bot,
                   funding, config, seen_uids, all_news, total_count, idx,
                   feed, all_items, accepted, dedup_log>>

\* _fetch_industry_news asks Baidu for keywords[kw]
FetchBaidu ==
    /\ pc = "baidu"
    /\ \E resp \in SearchResponses :
         /\ news_items' = news_items
                \o _fetch_from_baidu_news(resp, INDUSTRIES[idx].name, now)
         /\ outcome' = SearchOutcome(resp)
         /\ IF kw < BaiduKeywords /\ kw < Len(INDUSTRIES[idx].keywords)
            THEN kw' = kw + 1 /\ pc' = AfterTry(resp, "baidu")
            ELSE kw' = 1 /\ pc' = AfterTry(resp, "bing")
    /\ requests' = [requests EXCEPT ![idx].baidu = @ + 1]
    /\ UNCHANGED <<job, bot,
                   funding, config, seen_uids, all_news, total_count, idx,
                   feed, all_items, accepted, dedup_log>>

\* _fetch_industry_news asks Bing for keywords[0] and deduplicates;
\* fetch_all stores the result and moves to the next industry
FetchBing ==
    /\ pc = "bing"
    /\ \E resp \in SearchResponses :
         LET items == news_items
                 \o _fetch_from_bing_news(resp, INDUSTRIES[idx].name, now)
             res == _deduplicate(items, seen_uids, now)
             industry_news == res.unique_items
             stored == StoreIndustry(all_news, INDUSTRIES[idx].name,
                                     industry_news)
         IN  /\ seen_uids' = res.seen_uids
             /\ accepted' = accepted \o industry_news
             /\ all_news' = stored
             /\ total_count' =
                    total_count + Len(Get(stored, INDUSTRIES[idx].name))
             /\ outcome' = SearchOutcome(resp)
             /\ pc' = AfterTry(resp, "fetch_all")
    /\ requests' = [requests EXCEPT ![idx].bing = @ + 1]
    /\ news_items' = <<>>
    /\ idx' = idx + 1
    /\ UNCHANGED <<job, bot,
                   funding, config, kw, feed, all_items, dedup_log>>

\* fetch_all leaves its loop, at the end of INDUSTRIES or by the break
FetchAllReturn ==
    /\ pc = "fetch_all"
    /\ idx > Len(INDUSTRIES) \/ LimitReached(total_count)
    /\ pc' = "rss"
    /\ outcome' = "none"
    /\ UNCHANGED <<job, bot,
                   funding, config, seen_uids, all_news, total_count, idx,
                   kw, news_items, feed, all_items, requests, accepted,
                   dedup_log>>

\* fetch_from_rss parses RSS_FEEDS[feed]
FetchRssFeed ==
    /\ pc = "rss"
    /\ feed <= Len(RSS_FEEDS)
    /\ \E resp \in RssResponses :
         /\ all_items' =
                all_items \o RssFeedItems(resp, RSS_FEEDS[feed], now)
         /\ outcome' = RssOutcome(resp)
         /\ pc' = AfterTry(resp, "rss")
    /\ feed' = feed + 1
    /\ UNCHANGED <<job, bot,
                   funding, config, seen_uids, all_news, total_count, idx,
                   kw, news_items, requests, accepted, dedup_log>>

\* fetch_from_rss deduplicates all_items and returns; fetch_news merges
\* the result into search_news and returns
MergeRssNews ==
    /\ pc = "rss"
    /\ feed > Len(RSS_FEEDS)
    /\ LET res == _deduplicate(all_items, seen_uids, now)
       IN  /\ seen_uids' = res.seen_uids
           /\ accepted' = accepted \o res.unique_items
           /\ all_news' = MergeRss(all_news, res.unique_items, 1)
    /\ pc' = "done"
    /\ outcome' = "none"
    /\ UNCHANGED <<job, bot,
                   funding, config, total_count, idx, kw, news_items, feed,
                   all_items, requests, dedup_log>>

Next ==
    \/ FetchSogou
    \/ FetchBaidu
    \/ FetchBing
    \/ FetchAllReturn
    \/ FetchRssFeed
    \/ MergeRssNews

Spec == Init /\ [][Next]_vars

\* ------------------------------------------------------------------------
\* One NewsFetcher whose _deduplicate is called with any lists of items,
\* MaxFed items in all
\* ------------------------------------------------------------------------
MaxFed == 3

\* a moment later than Now0
Now1 == [Now0 EXCEPT !.second = 1]

\* the items the parsers make of the raw results, and one made a second
\* later by another provider for another industry
DedupItems ==
    {SogouItem(raw, INDUSTRIES[1].name, Now0)[1] :
        raw \in RawResults \ {RawShort}}
    \cup {BingItem(Raw(TitleAiChip, Url2, SummaryFounded, <<>>,
                       Time5DaysAgo),
                   INDUSTRIES[2].name, Now1)[1]}

InitDedup ==
    /\ MAX_NEWS_PER_INDUSTRY = MaxPerIndustryCfg
    /\ MAX_TOTAL_NEWS = MaxTotalCfg
    /\ now = Now1
    /\ seen_uids = {}
    /\ pc = "dedup"
    /\ all_news = <<>>
    /\ total_count = 0
    /\ idx = 1
    /\ kw = 1
    /\ news_items = <<>>
    /\ feed = 1
    /\ all_items = <<>>
    /\ requests = NoRequests
    /\ accepted = <<>>
    /\ dedup_log = <<>>
    /\ events = <<>>
    /\ matched = <<>>
    /\ by_industry = <<>>
    /\ funding_requests = <<>>
    /\ calls = <<>>
    /\ outcome = "none"
    /\ job = NoJob
    /\ bot = NewBot

\* the number of the call that comes next
NextCall ==
    IF dedup_log = <<>> THEN 1 ELSE dedup_log[Len(dedup_log)].call + 1

\* one call of _deduplicate on the fetcher
Deduplicate ==
    /\ pc = "dedup"
    /\ \E n \in 1..(MaxFed - Len(dedup_log)) :
         \E items \in [1..n -> DedupItems] :
           LET res == _deduplicate(items, seen_uids, now)
           IN  /\ seen_uids' = res.seen_uids
               /\ accepted' = accepted \o res.unique_items
                 /\ dedup_log' = dedup_log \o
                    [k \in 1..n |->
                        [item |-> items[k], verdict |-> res.log[k],
                         call |-> NextCall]]
    /\ UNCHANGED <<job, bot,
                   funding, config, pc, all_news, total_count, idx, kw,
                   news_items, feed, all_items, requests, outcome>>

NextDedup == Deduplicate

SpecDedup == InitDedup /\ [][NextDedup]_vars

\* ------------------------------------------------------------------------
\* funding_fetcher.py: FundingFetcher._is_too_old, _extract_date_from_url
\* ------------------------------------------------------------------------
FUNDING_MAX_AGE_DAYS == 7

\* re.match(pattern, text): a match at the start of text
re_match(pattern, text) == MatchFrom(pattern, 1, text, 1)

\* `$` at position i: the end of text, or before a newline that ends it
AtEnd(text, i) ==
    \/ i = Len(text) + 1
    \/ i = Len(text) /\ text[i] = "\n"

\* r'(\d{4})-(\d{2})' of r'(\d{4})-(\d{2})$'
ReYearMonth == <<D(4, 4), Lit("-"), D(2, 2)>>

\* r'/(\d{4})(\d{2})/'
ReUrlMonth == <<Lit("/"), D(4, 4), D(2, 2), Lit("/")>>

\* FundingFetcher._extract_date_from_url
_extract_date_from_url(url) ==
    LET m == re_search(ReUrlMonth, url)
    IN  IF m.ok THEN Group(m, url, 2) \o <<"-">> \o Group(m, url, 3)
        ELSE <<>>

\* a check of the year and month that keeps the current month only
PartialTooOldCurrentOnly(year, month, at) ==
    ~(year = at.year /\ month >= at.month)

\* the verdict of the YYYY-MM branch of _is_too_old
PartialTooOld(year, month, at) ==
    IF year = at.year /\ month >= at.month - 1 THEN FALSE
    ELSE IF year = at.year - 1 /\ at.month = 1 /\ month = 12 THEN FALSE
    ELSE TRUE

\* a check of the full date that holds a date of exactly the cutoff day stale
\* whatever the time of day
FullTooOldByDay(y, mo, d, at) ==
    Ordinal(y, mo, d) <= Ordinal(at.year, at.month, at.day)
                             - FUNDING_MAX_AGE_DAYS

\* event_date < cutoff of the YYYY-MM-DD branch of _is_too_old
FullTooOld(y, mo, d, at) == MidnightBefore(y, mo, d, at, FUNDING_MAX_AGE_DAYS)

\* FundingFetcher._is_too_old
_is_too_old(publish_time, at) ==
    LET m == re_match(ReDateIso, publish_time)
        y == ToInt(Group(m, publish_time, 1))
        mo == ToInt(Group(m, publish_time, 3))
        d == ToInt(Group(m, publish_time, 5))
        m2 == re_match(ReYearMonth, publish_time)
    IN  IF m.ok /\ ValidDate(y, mo, d) THEN FullTooOld(y, mo, d, at)
        ELSE IF m2.ok /\ AtEnd(publish_time, m2.ends[3])
             THEN PartialTooOld(ToInt(Group(m2, publish_time, 1)),
                                ToInt(Group(m2, publish_time, 3)), at)
             ELSE FALSE

\* if publish_time and self._is_too_old(publish_time): continue
FundingKeeps(publish_time, at) ==
    ~(publish_time # <<>> /\ _is_too_old(publish_time, at))

\* ------------------------------------------------------------------------
\* funding_fetcher.py: FundingFetcher._match_industry
\* ------------------------------------------------------------------------
\* extended_mapping: the entries of the labels of INDUSTRIES, in
\* declaration order
extended_mapping ==
    <<[name |-> Name_rengongzhineng,
       keywords |->
           <<<<"A", "I">>,
             <<"u5927", "u6a21", "u578b">>,
             <<"u673a", "u5668", "u4eba">>,
             <<"u667a", "u80fd", "u4f53">>,
             <<"u7b97", "u529b">>,
             <<"u7b97", "u6cd5">>,
             <<"G", "P", "T">>,
             <<"L", "L", "M">>>>],
      [name |-> Name_bandaoti,
       keywords |->
           <<<<"u82af", "u7247">>,
             <<"u534a", "u5bfc", "u4f53">>,
             <<"u6676", "u5706">>,
             <<"E", "D", "A">>,
             <<"u5149", "u523b">>>>],
      [name |-> Name_xinnengyuan,
       keywords |->
           <<<<"u7535", "u6c60">>,
             <<"u5149", "u4f0f">>,
             <<"u98ce", "u7535">>,
             <<"u50a8", "u80fd">>,
             <<"u5145", "u7535">>,
             <<"u65b0", "u80fd", "u6e90", "u8f66">>>>]>>

RECURSIVE MatchTableFrom(_, _, _, _)
\* for industry ... for keyword ... if keyword in text: return industry,
\* over a table, from entry i, keyword k on; None when the loops end
MatchTableFrom(table, text, i, k) ==
    IF i > Len(table) THEN None
    ELSE IF k > Len(table[i].keywords)
         THEN MatchTableFrom(table, text, i + 1, 1)
         ELSE IF Contains(table[i].keywords[k], text)
              THEN table[i].name
              ELSE MatchTableFrom(table, text, i, k + 1)

\* a classifier that consults the extended table first
MatchExtendedFirst(text) ==
    LET extended == MatchTableFrom(extended_mapping, text, 1, 1)
    IN  IF extended # None THEN extended
        ELSE MatchTableFrom(INDUSTRIES, text, 1, 1)

\* FundingFetcher._match_industry
FundingMatchIndustry(text) ==
    LET primary == MatchTableFrom(INDUSTRIES, text, 1, 1)
    IN  IF primary # None THEN primary
        ELSE MatchTableFrom(extended_mapping, text, 1, 1)

\* ------------------------------------------------------------------------
\* funding_fetcher.py: the patterns of _parse_funding_title, _parse_amount
\* and _parse_ipo_company
\* ------------------------------------------------------------------------
Upper ==
    {"A", "B", "C", "D", "E", "F", "G", "H", "I", "J", "K", "L", "M", "N",
     "O", "P", "Q", "R", "S", "T", "U", "V", "W", "X", "Y", "Z"}
Lower ==
    {"a", "b", "c", "d", "e", "f", "g", "h", "i", "j", "k", "l", "m", "n",
     "o", "p", "q", "r", "s", "t", "u", "v", "w", "x", "y", "z"}
\* the characters of the modelled pages outside U+4E00..U+9FFF
Punctuation ==
    {" ", "\t", "\n", "!", "%", "&", "(", ")", "+", ",", "-", ".", "/", ":",
     ";", "<", "=", ">", "?", "\"",
     "u3000", "u3001", "u3002", "u300c", "u300d", "uff0c", "uff1a"}
\* [U+4E00-U+9FFF]
IsCjk(c) == c \notin Upper \cup Lower \cup Digits \cup Punctuation

\* w stands in text at position i
StartsAt(text, i, w) ==
    i >= 1 /\ i + Len(w) - 1 <= Len(text)
    /\ SubSeq(text, i, i + Len(w) - 1) = w

\* one of the alternatives stands in text at position i
AnyStartsAt(text, i, alternatives) ==
    \E a \in 1..Len(alternatives) : StartsAt(text, i, alternatives[a])

\* (.{lo,hi}?)(?:alternatives) at position s: the length of the group, the
\* shortest that lets an alternative follow; -1 when there is none
LazyGroup(text, s, lo, hi, alternatives) ==
    LET Fits(n) ==
            /\ s + n - 1 <= Len(text)
            /\ \A j \in s..(s + n - 1) : text[j] # "\n"
            /\ AnyStartsAt(text, s + n, alternatives)
    IN  IF \E n \in lo..hi : Fits(n)
        THEN CHOOSE n \in lo..hi : Fits(n) /\ \A m \in lo..(n - 1) : ~Fits(m)
        ELSE -1

NoGroup == [ok |-> FALSE, text |-> <<>>]

RECURSIVE LeadLazyFrom(_, _, _, _, _, _)
\* lead\s*(.{lo,hi}?)(?:alternatives) searched from position s on: the
\* group of the leftmost match; \s* gives back what it took, one by one
LeadLazyFrom(text, s, lead, lo, hi, alternatives) ==
    IF s > Len(text) THEN NoGroup
    ELSE LET m == MatchFrom(lead, 1, text, s)
             after == m.ends[Len(lead)]
             spaces == Run(Spaces, text, after, -1)
             Found(j) ==
                 LazyGroup(text, after + j, lo, hi, alternatives) # -1
         IN  IF m.ok /\ \E j \in 0..spaces : Found(j)
             THEN LET j == CHOOSE k \in 0..spaces :
                               Found(k) /\ \A h \in (k + 1)..spaces : ~Found(h)
                      n == LazyGroup(text, after + j, lo, hi, alternatives)
                  IN  [ok |-> TRUE,
                       text |-> SubSeq(text, after + j, after + j + n - 1)]
             ELSE LeadLazyFrom(text, s + 1, lead, lo, hi, alternatives)

\* ^(.{lo,hi}?)(?:alternatives)
StartLazy(text, lo, hi, alternatives) ==
    LET n == LazyGroup(text, 1, lo, hi, alternatives)
    IN  IF n = -1 THEN NoGroup
        ELSE [ok |-> TRUE, text |-> SubSeq(text, 1, n)]

QuoteOpen == {"u300c", "\""}
QuoteClose == {"u300d", "\""}

RECURSIVE QuotedFrom(_, _)
\* an opening quote, the shortest text, a closing quote: the first pattern
\* of _parse_funding_title and of _parse_ipo_company, searched from s on
QuotedFrom(text, s) ==
    IF s > Len(text) THEN NoGroup
    ELSE LET Closes(q) ==
                 /\ text[q] \in QuoteClose
                 /\ \A j \in (s + 1)..(q - 1) : text[j] # "\n"
         IN  IF text[s] \in QuoteOpen
                /\ \E q \in (s + 1)..Len(text) : Closes(q)
             THEN LET q == CHOOSE k \in (s + 1)..Len(text) :
                               Closes(k)
                               /\ \A h \in (s + 1)..(k - 1) : ~Closes(h)
                  IN  [ok |-> TRUE, text |-> SubSeq(text, s + 1, q - 1)]
             ELSE QuotedFrom(text, s + 1)

\* re.search over the variants an optional group gives a pattern: the
\* leftmost match, the earlier variant at equal starts
SearchVariants(variants, text) ==
    LET found == {v \in 1..Len(variants) : re_search(variants[v], text).ok}
        Start(v) == re_search(variants[v], text).start
    IN  IF found = {} THEN <<>>
        ELSE LET v == CHOOSE w \in found :
                          \A x \in found :
                              Start(w) < Start(x)
                              \/ (Start(w) = Start(x) /\ w <= x)
             IN  Whole(re_search(variants[v], text), text, variants[v])

RECURSIVE FirstPattern(_, _, _)
\* for pattern in patterns: m = re.search(pattern, title); if m: return
\* m.group(1), from pattern k on; "" when none matches
FirstPattern(patterns, text, k) ==
    IF k > Len(patterns) THEN <<>>
    ELSE IF SearchVariants(patterns[k], text) # <<>>
         THEN SearchVariants(patterns[k], text)
         ELSE FirstPattern(patterns, text, k + 1)

Comma == {"uff0c", ","}
Colon == {"uff1a", ":"}
Currency == {"u7f8e", "u5143", "u4eba", "u6c11", "u5e01"}
Number == Digits \cup {"."}

\* (?:<wan cheng>|<huo de>|<huo>|<xuan bu>|<ni>): completes, obtains, announces, plans
FundingVerbs ==
    <<<<"u5b8c", "u6210">>, <<"u83b7", "u5f97">>, <<"u83b7">>, <<"u5ba3",
    "u5e03">>, <<"u62df">>>>

\* _parse_funding_title: the leading modifiers re.sub removes from company
CompanyModifiers ==
    <<<<"u603b", "u989d">>, <<"u534a", "u5e74">>>>

\* re.sub(r'^(<modifier>.*?[<comma>,])', '', company).strip()
StripModifier(company) ==
    LET Ends(q) ==
            /\ company[q] \in Comma
            /\ \A j \in 3..(q - 1) : company[j] # "\n"
    IN  IF AnyStartsAt(company, 1, CompanyModifiers)
           /\ \E q \in 3..Len(company) : Ends(q)
        THEN LET q == CHOOSE k \in 3..Len(company) :
                          Ends(k) /\ \A h \in 3..(k - 1) : ~Ends(h)
             IN  Strip(SubSeq(company, q + 1, Len(company)))
        ELSE Strip(company)

\* _parse_funding_title: company
FundingCompany(title) ==
    LET quoted == QuotedFrom(title, 1)
        after_comma ==
            LeadLazyFrom(title, 1, <<[cls |-> Comma, lo |-> 1, hi |-> 1]>>,
                         2, 15, FundingVerbs)
        at_start == StartLazy(title, 2, 15, FundingVerbs)
        company == IF after_comma.ok THEN Strip(after_comma.text)
                   ELSE IF at_start.ok THEN Strip(at_start.text)
                   ELSE <<>>
    IN  IF quoted.ok THEN quoted.text
        ELSE IF company # <<>> THEN StripModifier(company)
        ELSE company

Plus == [cls |-> {"+"}, lo |-> 0, hi |-> -1]
Cls(chars, lo, hi) == [cls |-> chars, lo |-> lo, hi |-> hi]

\* round_patterns, each with the variants its optional group gives
RoundPatterns ==
    <<
      \* r'((?:Pre-?)?[A-Z]\+*<lun>)'
      <<<<Lit("P"), Lit("r"), Lit("e"), Cls({"-"}, 0, 1),
          Cls(Upper, 1, 1), Plus, Lit("u8f6e")>>,
        <<Cls(Upper, 1, 1), Plus, Lit("u8f6e")>>>>,
      \* r'(<tian shi>[\+]*<lun>)': angel round
      <<<<Lit("u5929"), Lit("u4f7f"), Plus, Lit("u8f6e")>>>>,
      \* r'(<zhong zi lun>)': seed round
      <<<<Lit("u79cd"), Lit("u5b50"), Lit("u8f6e")>>>>,
      \* r'(<zhan lue rong zi>)': strategic financing
      <<<<Lit("u6218"), Lit("u7565"),
          Lit("u878d"), Lit("u8d44")>>>>,
      \* r'(<gu quan rong zi>)': equity financing
      <<<<Lit("u80a1"), Lit("u6743"),
          Lit("u878d"), Lit("u8d44")>>>>,
      \* r'([A-Z]\d*\+*<lun>)'
      <<<<Cls(Upper, 1, 1), Cls(Digits, 0, -1), Plus, Lit("u8f6e")>>>>
    >>

CurrencyRun == Cls(Currency, 0, -1)
NumberRun == Cls(Number, 1, -1)

\* amount_patterns
AmountPatterns ==
    <<
      \* r'(<chao>[\d.]+\s*<yi>[<currency>]*)': over ... hundred million
      <<<<Lit("u8d85"), NumberRun, Ws(0), Lit("u4ebf"), CurrencyRun>>>>,
      \* r'(<jin>[\d.]+\s*<yi>[<currency>]*)': nearly ... hundred million
      <<<<Lit("u8fd1"), NumberRun, Ws(0), Lit("u4ebf"), CurrencyRun>>>>,
      \* r'(<jin>[<shi bai qian>]\s*<yi>[<currency>]*)'
      <<<<Lit("u8fd1"), Cls({"u5341", "u767e", "u5343"}, 1, 1), Ws(0),
          Lit("u4ebf"), CurrencyRun>>>>,
      \* r'([\d.]+\s*<yi>[<currency>]*)'
      <<<<NumberRun, Ws(0), Lit("u4ebf"), CurrencyRun>>>>,
      \* r'(<shu>[<qian bai shi>]<wan>[<currency>]*)': several ... ten thousand
      <<<<Lit("u6570"), Cls({"u5343", "u767e", "u5341"}, 1, 1),
          Lit("u4e07"), CurrencyRun>>>>,
      \* r'(<shu qian wan>)'
      <<<<Lit("u6570"), Lit("u5343"), Lit("u4e07")>>>>,
      \* r'([\d.]+\s*<wan>[<currency>]*)'
      <<<<NumberRun, Ws(0), Lit("u4e07"), CurrencyRun>>>>,
      \* r'(<shi zhi>[\d.]+\s*<yi>)': market value
      <<<<Lit("u5e02"), Lit("u503c"), NumberRun, Ws(0), Lit("u4ebf")>>>>
    >>

\* FundingFetcher._parse_amount
_parse_amount(title) == FirstPattern(AmountPatterns, title, 1)

\* FundingFetcher._parse_funding_title
_parse_funding_title(title) ==
    [company |-> FundingCompany(title),
     round_info |-> FirstPattern(RoundPatterns, title, 1),
     amount |-> _parse_amount(title)]

\* _parse_ipo_company: the leading modifiers re.sub removes from name
NameModifiers ==
    <<<<"u4eca", "u5929">>, <<"u4eca", "u5e74">>, <<"u9996", "u4e2a">>,
      <<"u822a", "u5929">>, <<"u533b", "u7597">>,
      <<"u79d1", "u521b", "u677f">>>>

\* the suffixes of the pattern of common company names
CompanySuffixes ==
    <<<<"u79d1", "u6280">>, <<"u667a", "u80fd">>, <<"u751f", "u547d">>,
      <<"u533b", "u7597">>, <<"u82af", "u7247">>,
      <<"u534a", "u5bfc", "u4f53">>, <<"u65b0", "u6750", "u6599">>,
      <<"u80fd", "u6e90">>, <<"u822a", "u5929">>, <<"u8d44", "u672c">>,
      <<"u6bd4", "u8428">>, <<"u96c6", "u56e2">>>>

\* _parse_ipo_company: patterns, as [lead, lo, hi, alternatives]; an empty
\* lead stands for `^`
IpoPatterns ==
    <<
      \* r'^(.{2,8}?)(?:<fu gang>|<fu mei>|<fu niu>)': goes to Hong Kong, America, New York
      [lead |-> <<>>, lo |-> 2, hi |-> 8,
       alternatives |->
           <<<<"u8d74", "u6e2f">>, <<"u8d74", "u7f8e">>,
             <<"u8d74", "u7ebd">>>>],
      \* r'<jin>[<tian ri>]\s*(.{2,6}?)(?:IPO|<shang shi>|<qiao>)': today
      [lead |-> <<Lit("u4eca"), Cls({"u5929", "u65e5"}, 1, 1)>>, lo |-> 2, hi |-> 6,
       alternatives |->
           <<<<"I", "P", "O">>, <<"u4e0a", "u5e02">>, <<"u6572">>>>],
      \* r'[<comma>,]\s*(.{2,10}?)(?:<yao>IPO|IPO<le>|<fu gang shang shi>|<yao shang shi>)'
      [lead |-> <<Cls(Comma, 1, 1)>>, lo |-> 2, hi |-> 10,
       alternatives |->
           <<<<"u8981", "I", "P", "O">>, <<"I", "P", "O", "u4e86">>,
             <<"u8d74", "u6e2f", "u4e0a", "u5e02">>,
             <<"u8981", "u4e0a", "u5e02">>>>],
      \* r'[<comma>,]\s*(.{2,10}?)(?:<qiao>[<zhong luo>])': rings the bell
      [lead |-> <<Cls(Comma, 1, 1)>>, lo |-> 2, hi |-> 10,
       alternatives |->
           <<<<"u6572", "u949f">>, <<"u6572", "u9523">>>>],
      \* r'[<comma>,]\s*(.{2,8}?)(?:<shi zhi>)': market value
      [lead |-> <<Cls(Comma, 1, 1)>>, lo |-> 2, hi |-> 8,
       alternatives |->
           <<<<"u5e02", "u503c">>>>],
      \* r'[<colon>:]\s*(.{2,8}?)(?:<bao zhang>|<shang zhang>|<da zhang>|<shi zhi>)': soars
      [lead |-> <<Cls(Colon, 1, 1)>>, lo |-> 2, hi |-> 8,
       alternatives |->
           <<<<"u66b4", "u6da8">>, <<"u4e0a", "u6da8">>, <<"u5927", "u6da8">>,
             <<"u5e02", "u503c">>>>]
    >>

\* m = re.search(pattern, title) for a pattern of IpoPatterns
IpoSearch(pattern, title) ==
    IF pattern.lead = <<>>
    THEN StartLazy(title, pattern.lo, pattern.hi, pattern.alternatives)
    ELSE LeadLazyFrom(title, 1, pattern.lead, pattern.lo, pattern.hi,
                      pattern.alternatives)

\* re.sub(r'^(<modifier>|...)', '', name).strip()
StripNameModifier(name) ==
    IF AnyStartsAt(name, 1, NameModifiers)
    THEN LET a == CHOOSE k \in 1..Len(NameModifiers) :
                      /\ StartsAt(name, 1, NameModifiers[k])
                      /\ \A h \in 1..(k - 1) :
                             ~StartsAt(name, 1, NameModifiers[h])
         IN  Strip(SubSeq(name, Len(NameModifiers[a]) + 1, Len(name)))
    ELSE Strip(name)

RECURSIVE IpoNameFrom(_, _)
\* for pattern in patterns: ... if len(name) >= 2: return name, from
\* pattern k on; "" when the loop ends
IpoNameFrom(title, k) ==
    IF k > Len(IpoPatterns) THEN <<>>
    ELSE LET m == IpoSearch(IpoPatterns[k], title)
             name == StripNameModifier(Strip(m.text))
         IN  IF m.ok /\ Len(name) >= 2 THEN name
             ELSE IpoNameFrom(title, k + 1)

RECURSIVE CommonNameFrom(_, _)
\* r'([U+4E00-U+9FFF]{2,6}(?:<suffix>|...))' searched from position s on
CommonNameFrom(title, s) ==
    IF s > Len(title) THEN <<>>
    ELSE LET run == Run({c \in {title[j] : j \in s..Len(title)} : IsCjk(c)},
                        title, s, 6)
             Fits(n) == AnyStartsAt(title, s + n, CompanySuffixes)
         IN  IF \E n \in 2..run : Fits(n)
             THEN LET n == CHOOSE k \in 2..run :
                               Fits(k) /\ \A h \in (k + 1)..run : ~Fits(h)
                      a == CHOOSE k \in 1..Len(CompanySuffixes) :
                               /\ StartsAt(title, s + n, CompanySuffixes[k])
                               /\ \A h \in 1..(k - 1) :
                                      ~StartsAt(title, s + n,
                                                CompanySuffixes[h])
                  IN  SubSeq(title, s, s + n + Len(CompanySuffixes[a]) - 1)
             ELSE CommonNameFrom(title, s + 1)

\* r'([A-Z][A-Za-z]{2,15})'
ReEnglishName == <<Cls(Upper, 1, 1), Cls(Upper \cup Lower, 2, 15)>>

\* FundingFetcher._parse_ipo_company
_parse_ipo_company(title) ==
    LET quoted == QuotedFrom(title, 1)
        english == re_search(ReEnglishName, title)
    IN  IF quoted.ok /\ Len(quoted.text) >= 2 THEN quoted.text
        ELSE IF IpoNameFrom(title, 1) # <<>> THEN IpoNameFrom(title, 1)
        ELSE IF CommonNameFrom(title, 1) # <<>>
             THEN CommonNameFrom(title, 1)
        ELSE IF english.ok THEN Whole(english, title, ReEnglishName)
        ELSE <<>>

\* ------------------------------------------------------------------------
\* funding_fetcher.py: FundingEvent, _fetch_funding_list, _fetch_ipo_list
\* ------------------------------------------------------------------------
FundingEvent(company, title, url, event_type, round, amount, publish_time) ==
    [company |-> company, title |-> title, url |-> url,
     event_type |-> event_type, round |-> round, amount |-> amount,
     industry |-> <<>>, publish_time |-> publish_time, summary |-> <<>>]

\* "news.pedaily.cn"
PedailyNews ==
    <<"n", "e", "w", "s", ".", "p", "e", "d", "a", "i", "l", "y", ".", "c",
      "n">>
\* the words one of which a funding title holds: financing, round, investment
FundingWords ==
    <<<<"u878d", "u8d44">>, <<"u8f6e">>, <<"u6295", "u8d44">>>>
\* the words one of which an IPO title holds: IPO, listing, rings the bell,
\* market value
IpoWords ==
    <<<<"I", "P", "O">>, <<"u4e0a", "u5e02">>, <<"u6572", "u949f">>,
      <<"u5e02", "u503c">>>>
EventFunding == <<"u878d", "u8d44">>
EventIpo == <<"I", "P", "O">>

MinFundingTitleLen == 10
MinIpoTitleLen == 15

\* any(kw in title for kw in words)
HasWord(words, title) ==
    \E k \in 1..Len(words) : Contains(words[k], title)

RECURSIVE SpanTime(_, _)
\* the text of the first span, from span k on, that starts with a
\* YYYY-MM-DD; "" when there is none
SpanTime(spans, k) ==
    IF k > Len(spans) THEN <<>>
    ELSE IF re_match(ReDateIso, Strip(spans[k])).ok THEN Strip(spans[k])
    ELSE SpanTime(spans, k + 1)

\* _fetch_funding_list: what the loop body appends for one li element
FundingListEvent(li, at) ==
    LET title == Strip(li.title)
        publish_time == SpanTime(li.spans, 1)
        parsed == _parse_funding_title(title)
    IN  IF ~li.has_a THEN <<>>
        ELSE IF li.href = <<>> \/ Len(title) < MinFundingTitleLen THEN <<>>
        ELSE IF ~Contains(PedailyNews, li.href) THEN <<>>
        ELSE IF ~HasWord(FundingWords, title) THEN <<>>
        ELSE IF ~FundingKeeps(publish_time, at) THEN <<>>
        ELSE <<FundingEvent(parsed.company, title, li.href, EventFunding,
                            parsed.round_info, parsed.amount,
                            publish_time)>>

\* _fetch_ipo_list: what the loop body appends for one a element
IpoListEvent(a, at) ==
    LET title == Strip(a.title)
        publish_time == _extract_date_from_url(a.href)
    IN  IF a.href = <<>> \/ Len(title) < MinIpoTitleLen THEN <<>>
        ELSE IF ~Contains(PedailyNews, a.href) THEN <<>>
        ELSE IF ~HasWord(IpoWords, title) THEN <<>>
        ELSE IF ~FundingKeeps(publish_time, at) THEN <<>>
        ELSE <<FundingEvent(_parse_ipo_company(title), title, a.href,
                            EventIpo, EventIpo, _parse_amount(title),
                            publish_time)>>

RECURSIVE Flatten(_)
\* the concatenation of a sequence of lists
Flatten(lists) ==
    IF lists = <<>> THEN <<>> ELSE lists[1] \o Flatten(Tail(lists))

\* FundingFetcher._fetch_funding_list: the events of a response; none when
\* the request raises or the status is not 200
_fetch_funding_list(resp, at) ==
    IF resp.raised \/ resp.status_code # 200 THEN <<>>
    ELSE Flatten([k \in 1..Len(resp.results) |->
                     FundingListEvent(resp.results[k], at)])

\* FundingFetcher._fetch_ipo_list
_fetch_ipo_list(resp, at) ==
    IF resp.raised \/ resp.status_code # 200 THEN <<>>
    ELSE Flatten([k \in 1..Len(resp.results) |->
                     IpoListEvent(resp.results[k], at)])

\* ------------------------------------------------------------------------
\* funding_fetcher.py: FundingFetcher.fetch_all, fetch_funding_events
\* ------------------------------------------------------------------------
\* a loop that keeps the events the classifier has no label for
MatchEventsKeepAll(evs) ==
    [k \in 1..Len(evs) |->
        [evs[k] EXCEPT !.industry =
            FundingMatchIndustry(evs[k].title \o evs[k].summary
                                     \o evs[k].company)]]

\* fetch_all: matched, the events the classifier has a label for, labelled
MatchEvents(evs) ==
    LET Label(event) ==
            FundingMatchIndustry(event.title \o event.summary
                                     \o event.company)
        kept == SelectSeq(evs, LAMBDA event : Label(event) # None)
    IN  [k \in 1..Len(kept) |->
            [kept[k] EXCEPT !.industry = Label(kept[k])]]

RECURSIVE GroupByIndustry(_, _, _)
\* for event in events: if event.industry:
\*     by_industry.setdefault(event.industry, []).append(event)
GroupByIndustry(d, evs, k) ==
    IF k > Len(evs) THEN d
    ELSE GroupByIndustry(
             IF evs[k].industry # <<>>
             THEN Put(d, evs[k].industry,
                      Append(Get(d, evs[k].industry), evs[k]))
             ELSE d,
             evs, k + 1)

\* ------------------------------------------------------------------------
\* The pages pedaily.cn answers with.  An li of the funding page is what
\* the selectors read from it: whether it holds a link, the link's text
\* and href, and the texts of its spans; an a of the IPO page is the
\* link's text and href.
\* A page may list a story twice, in its headline block and in
\* its list.
\* ------------------------------------------------------------------------
\* a quoted company gets a strategic investment
FTitleRobot ==
    <<"u300c", "u667a", "u5143", "u673a", "u5668", "u4eba", "u300d",
      "u83b7", "u6570", "u4ebf", "u5143", "u6218", "u7565", "u878d", "u8d44">>
\* a company without a keyword closes two rounds
FTitlePlain ==
    <<"u7b97", "u82d7", "u79d1", "u6280", "u5b8c", "u6210", "P", "r", "e",
      "-", "A", "u8f6e", "u3001", "P", "r", "e", "-", "A", "1", "u8f6e",
      "u878d", "u8d44">>
\* a solid-state battery firm gets a C+ round
FTitleBattery ==
    <<"u56fa", "u6001", "u7535", "u6c60", "u4f01", "u4e1a", "u83b7",
      "u5f97", "5", "0", "0", "0", "u4e07", "u7f8e", "u5143", "C", "+",
      "u8f6e", "u6295", "u8d44">>
\* an AI chip company closes a financing, in MinFundingTitleLen characters
FTitleChip ==
    <<"A", "I", "u82af", "u7247", "u516c", "u53f8", "u5b8c", "u6210",
      "u878d", "u8d44">>
\* a solid-state battery firm shows a product: no funding word
FTitleProduct ==
    <<"u56fa", "u6001", "u7535", "u6c60", "u4f01", "u4e1a", "u53d1",
      "u5e03", "u65b0", "u4e00", "u4ee3", "u4ea7", "u54c1", "u5566">>
\* a photovoltaic company is about to go public
ITitlePv ==
    <<"u521a", "u521a", "uff0c", "u62a4", "u5bb6", "u79d1", "u6280",
      "u8981", "I", "P", "O", "u4e86", "uff0c", "u5149", "u4f0f", "u9f99",
      "u5934">>
\* a company without a keyword lists in Hong Kong
ITitleKunlun ==
    <<"u6606", "u4ed1", "u82af", "u8d74", "u6e2f", "u4e0a", "u5e02",
      "uff0c", "u4f30", "u503c", "u8d85", "u5343", "u4ebf", "u5143",
      "u4eba", "u6c11", "u5e01">>
\* a medical chip company lists in Hong Kong
ITitleMedChip ==
    <<"u4f30", "u503c", "u767e", "u4ebf", "uff0c", "u4eca", "u5e74",
      "u533b", "u7597", "u82af", "u7247", "u8d74", "u6e2f", "u4e0a",
      "u5e02", "u4e86">>
\* a photovoltaic leader lists: shorter than MinIpoTitleLen
ITitleShort ==
    <<"u5149", "u4f0f", "u9f99", "u5934", "u4e0a", "u5e02">>
HrefFunding1 ==
    <<"h", "t", "t", "p", "s", ":", "/", "/", "n", "e", "w", "s", ".", "p",
      "e", "d", "a", "i", "l", "y", ".", "c", "n", "/", "f", "/", "1">>
HrefFunding2 ==
    <<"h", "t", "t", "p", "s", ":", "/", "/", "n", "e", "w", "s", ".", "p",
      "e", "d", "a", "i", "l", "y", ".", "c", "n", "/", "f", "/", "2">>
HrefFunding3 ==
    <<"h", "t", "t", "p", "s", ":", "/", "/", "n", "e", "w", "s", ".", "p",
      "e", "d", "a", "i", "l", "y", ".", "c", "n", "/", "f", "/", "3">>
HrefFunding4 ==
    <<"h", "t", "t", "p", "s", ":", "/", "/", "n", "e", "w", "s", ".", "p",
      "e", "d", "a", "i", "l", "y", ".", "c", "n", "/", "f", "/", "4">>
HrefMarch ==
    <<"h", "t", "t", "p", "s", ":", "/", "/", "n", "e", "w", "s", ".", "p",
      "e", "d", "a", "i", "l", "y", ".", "c", "n", "/", "2", "0", "2", "5",
      "0", "3", "/", "5", "5", "1", ".", "s", "h", "t", "m", "l">>
HrefMarch2 ==
    <<"h", "t", "t", "p", "s", ":", "/", "/", "n", "e", "w", "s", ".", "p",
      "e", "d", "a", "i", "l", "y", ".", "c", "n", "/", "2", "0", "2", "5",
      "0", "3", "/", "5", "5", "2", ".", "s", "h", "t", "m", "l">>
HrefDecember ==
    <<"h", "t", "t", "p", "s", ":", "/", "/", "n", "e", "w", "s", ".", "p",
      "e", "d", "a", "i", "l", "y", ".", "c", "n", "/", "2", "0", "2", "4",
      "1", "2", "/", "7", "7", ".", "s", "h", "t", "m", "l">>
HrefExit ==
    <<"h", "t", "t", "p", "s", ":", "/", "/", "w", "w", "w", ".", "p", "e",
      "d", "a", "i", "l", "y", ".", "c", "n", "/", "e", "x", "i", "t", "/">>
SpanColumn == <<"u878d", "u8d44", "u5feb", "u8baf">>
SpanFresh == <<"2", "0", "2", "5", "-", "0", "3", "-", "0", "8">>
SpanStale == <<"2", "0", "2", "5", "-", "0", "2", "-", "2", "0">>

Li(has_a, title, href, spans) ==
    [has_a |-> has_a, title |-> title, href |-> href, spans |-> spans]
A(title, href) == [title |-> title, href |-> href]

FundingPages ==
    {<<Li(TRUE, FTitleRobot, HrefFunding1, <<SpanColumn, SpanFresh>>),
       Li(TRUE, FTitlePlain, HrefFunding2, <<SpanFresh>>),
       Li(TRUE, FTitleBattery, HrefFunding3, <<SpanStale>>),
       Li(FALSE, <<>>, <<>>, <<>>)>>,
     <<Li(TRUE, FTitleChip, HrefFunding4, <<>>),
       Li(TRUE, FTitleProduct, HrefFunding1, <<SpanFresh>>),
       Li(TRUE, FTitleBattery, HrefFunding3, <<SpanFresh>>),
       Li(TRUE, FTitleRobot, HrefExit, <<SpanFresh>>),
       Li(TRUE, FTitleBattery, HrefFunding3, <<SpanFresh>>)>>}

IpoPages ==
    {<<A(ITitlePv, HrefMarch), A(ITitleKunlun, HrefMarch2),
       A(ITitleShort, HrefMarch)>>,
     <<A(ITitleMedChip, HrefFunding1), A(ITitlePv, HrefDecember),
       A(ITitleMedChip, HrefExit)>>}

\* session.get: a page, an HTTP error, or a RequestException
FundingResponses ==
    {[raised |-> FALSE, status_code |-> 200, results |-> p] :
        p \in FundingPages}
    \cup {[raised |-> FALSE, status_code |-> 503, results |-> <<>>],
          [raised |-> TRUE, status_code |-> 0, results |-> <<>>]}

IpoResponses ==
    {[raised |-> FALSE, status_code |-> 200, results |-> p] :
        p \in IpoPages}
    \cup {[raised |-> FALSE, status_code |-> 503, results |-> <<>>],
          [raised |-> TRUE, status_code |-> 0, results |-> <<>>]}

\* ------------------------------------------------------------------------
\* fetch_funding_events(): one run
\* ------------------------------------------------------------------------
\* what NewsFetcher works on
news ==
    <<seen_uids, all_news, total_count, idx, kw, news_items, feed,
      all_items, requests, accepted, dedup_log>>

InitFunding ==
    /\ MAX_NEWS_PER_INDUSTRY = MaxPerIndustryCfg
    /\ MAX_TOTAL_NEWS = MaxTotalCfg
    /\ now = Now0
    /\ seen_uids = {}
    /\ pc = "funding_list"
    /\ all_news = <<>>
    /\ total_count = 0
    /\ idx = 1
    /\ kw = 1
    /\ news_items = <<>>
    /\ feed = 1
    /\ all_items = <<>>
    /\ requests = NoRequests
    /\ accepted = <<>>
    /\ dedup_log = <<>>
    /\ events = <<>>
    /\ matched = <<>>
    /\ by_industry = <<>>
    /\ funding_requests = <<>>
    /\ calls = <<>>
    /\ outcome = "none"
    /\ job = NoJob
    /\ bot = NewBot

\* fetch_all asks for the funding page
FetchFundingList ==
    /\ pc = "funding_list"
    /\ \E resp \in FundingResponses :
         /\ events' = events \o _fetch_funding_list(resp, now)
         /\ outcome' = SearchOutcome(resp)
         /\ pc' = AfterTry(resp, "ipo_list")
    /\ funding_requests' = Append(funding_requests, "funding_list")
    /\ UNCHANGED <<job, bot,
                   config, news, matched, by_industry, calls>>

\* fetch_all asks for the IPO page
FetchIpoList ==
    /\ pc = "ipo_list"
    /\ \E resp \in IpoResponses :
         /\ events' = events \o _fetch_ipo_list(resp, now)
         /\ outcome' = SearchOutcome(resp)
         /\ pc' = AfterTry(resp, "match")
    /\ funding_requests' = Append(funding_requests, "ipo_list")
    /\ UNCHANGED <<job, bot,
                   config, news, matched, by_industry, calls>>

\* fetch_all labels the events and returns those that have a label;
\* fetch_funding_events groups them and returns
MatchAndGroup ==
    /\ pc = "match"
    /\ matched' = MatchEvents(events)
    /\ by_industry' = GroupByIndustry(<<>>, MatchEvents(events), 1)
    /\ pc' = "funding_done"
    /\ outcome' = "none"
    /\ UNCHANGED <<job, bot,
                   config, news, events, funding_requests, calls>>

NextFunding ==
    \/ FetchFundingList
    \/ FetchIpoList
    \/ MatchAndGroup

\* run_news_job calls fetch_news() and fetch_funding_events(); the two
\* share no state
InitJob == Init \/ InitFunding

NextJob == Next \/ NextFunding

SpecJob == InitJob /\ [][NextJob]_vars

\* ------------------------------------------------------------------------
\* Single calls of the date checks and of the classifiers, on texts of the
\* forms the pages carry
\* ------------------------------------------------------------------------
\* relative times run from 0 to MaxAgo days, from 1 to MaxAgo months
MaxAgo == 5

DigitChars == <<"0", "1", "2", "3", "4", "5", "6", "7", "8", "9">>

RECURSIVE Str(_)
\* str(n) for n >= 0
Str(n) ==
    IF n < 10 THEN <<DigitChars[n + 1]>>
    ELSE Str(n \div 10) \o <<DigitChars[(n % 10) + 1]>>

RECURSIVE Pad(_, _)
\* n written with at least w digits
Pad(n, w) == IF Len(Str(n)) >= w THEN Str(n) ELSE <<"0">> \o Pad(n, w - 1)

DaysAgo(n) == Str(n) \o <<tian, qian>>
MonthsAgo(n) == Str(n) \o <<ge, yue, qian>>
IsoDate(y, m, d) == Pad(y, 4) \o <<"-">> \o Pad(m, 2) \o <<"-">> \o Pad(d, 2)
CnDate(y, m, d) == Pad(y, 4) \o <<nian>> \o Str(m) \o <<yue>> \o Str(d)
                       \o <<ri>>
YearMonth(y, m) == Pad(y, 4) \o <<"-">> \o Pad(m, 2)

\* the calendar dates and the pattern-shaped non-dates (month 13, day 31 of
\* a shorter month) written on the pages
PageDates ==
    {<<y, m, d>> : y \in 2024..2026, m \in {1, 3, 12, 13},
                   d \in {1, 2, 3, 4, 7, 8, 12, 28, 29, 31}}
    \cup {<<2025, 2, 30>>, <<2025, 0, 1>>, <<2025, 3, 0>>}

PageMonths == {<<y, m>> : y \in 2024..2026, m \in 0..13}

\* a free text without a date: an RFC 822 time of an RSS entry
TimeRfc822 ==
    <<"M", "o", "n", ",", " ", "1", "0", " ", "M", "a", "r", " ", "2", "0",
      "2", "5", " ", "0", "8", ":", "0", "0", ":", "0", "0", " ", "G", "M",
      "T">>
\* "just now"
TimeJustNow == <<"u521a", "u521a">>
\* a summary without a date
SummaryPlain ==
    <<"u4ea7", "u80fd", "u6301", "u7eed", "u63d0", "u5347">>

FreeTexts == {<<>>, TimeRfc822, TimeJustNow}

HoursAgo == {Time1HourAgo, Time2HoursAgo}

RelativeTimes ==
    {DaysAgo(n) : n \in 0..MaxAgo} \cup {MonthsAgo(n) : n \in 1..MaxAgo}

FullDates ==
    {IsoDate(t[1], t[2], t[3]) : t \in PageDates}
    \cup {CnDate(t[1], t[2], t[3]) : t \in PageDates}

PartialDates == {YearMonth(t[1], t[2]) : t \in PageMonths}

\* the publish_time and the summary of the item a check is called on
NewsPublishTimes == RelativeTimes \cup FullDates \cup FreeTexts \cup HoursAgo
NewsSummaries == {<<>>, SummaryPlain, SummaryFounded}
FundingPublishTimes ==
    RelativeTimes \cup FullDates \cup PartialDates \cup FreeTexts

\* midnight of a day of January; a morning of March
NowJan ==
    [year |-> 2025, month |-> 1, day |-> 5, hour |-> 0, minute |-> 0,
     second |-> 0, microsecond |-> 0]
\* the last microsecond of March
NowMarEnd ==
    [year |-> 2025, month |-> 3, day |-> 31, hour |-> 23, minute |-> 59,
     second |-> 59, microsecond |-> 999999]
Nows == {Now0, NowJan, NowMarEnd}

\* "chips" ahead of "artificial intelligence"
TitleChipAi ==
    <<"u82af", "u7247", "u4eba", "u5de5", "u667a", "u80fd", "u5e94", "u7528">>
\* "robot", a keyword of the extended table alone
TitleRobot ==
    <<"u673a", "u5668", "u4eba", "u516c", "u53f8", "u53d1", "u5e03",
      "u65b0", "u54c1">>
\* "AI" of the extended table, "chips" of the primary table
TitleAiChipRound ==
    <<"A", "I", "u82af", "u7247", "u516c", "u53f8", "u5b8c", "u6210",
      "u878d", "u8d44">>
\* "battery" and "algorithm", both of the extended table alone
TitleBatteryAlgo ==
    <<"u7535", "u6c60", "u4e0e", "u7b97", "u6cd5", "u516c", "u53f8">>
\* a title that ends with the first character of "chips"
TitleHalfChip ==
    <<"u56fd", "u4ea7", "u82af">>
\* a summary that starts with the second character of "chips"
SummaryHalfChip ==
    <<"u7247", "u91cf", "u4ea7">>

ClassifyTitles ==
    {TitleAiChip, TitleChipAi, TitleRobot, TitleAiChipRound,
     TitleBatteryAlgo, TitleHalfChip, TitleStock, TitlePv, TitleStorage}
ClassifySummaries == {<<>>, SummaryPlain, SummaryHalfChip, TitleRobot}

InitCalls ==
    /\ MAX_NEWS_PER_INDUSTRY = MaxPerIndustryCfg
    /\ MAX_TOTAL_NEWS = MaxTotalCfg
    /\ now \in Nows
    /\ seen_uids = {}
    /\ pc = "call"
    /\ all_news = <<>>
    /\ total_count = 0
    /\ idx = 1
    /\ kw = 1
    /\ news_items = <<>>
    /\ feed = 1
    /\ all_items = <<>>
    /\ requests = NoRequests
    /\ accepted = <<>>
    /\ dedup_log = <<>>
    /\ events = <<>>
    /\ matched = <<>>
    /\ by_industry = <<>>
    /\ funding_requests = <<>>
    /\ calls = <<>>
    /\ outcome = "none"
    /\ job = NoJob
    /\ bot = NewBot

\* _deduplicate([item]) on a new NewsFetcher, and _is_news_too_old(item)
CallNewsCheck ==
    /\ pc = "call"
    /\ \E publish_time \in NewsPublishTimes, summary \in NewsSummaries :
         LET item == NewsItem(TitleChip, Url5, SourceXinhua,
                              INDUSTRIES[2].name, summary, publish_time,
                              now)
             res == _deduplicate(<<item>>, seen_uids, now)
         IN  /\ seen_uids' = res.seen_uids
             /\ accepted' = res.unique_items
             /\ calls' = <<[op |-> "news", publish_time |-> publish_time,
                            summary |-> summary,
                            too_old |-> _is_news_too_old(item, now),
                            kept |-> res.unique_items = <<item>>]>>
    /\ pc' = "returned"
    /\ UNCHANGED <<job, bot,
                   config, all_news, total_count, idx, kw, news_items, feed,
                   all_items, requests, dedup_log, events, matched,
                   by_industry, funding_requests, outcome>>

\* _is_too_old(publish_time), and the test on it of the list parsers
CallFundingCheck ==
    /\ pc = "call"
    /\ \E publish_time \in FundingPublishTimes :
         calls' = <<[op |-> "funding", publish_time |-> publish_time,
                     too_old |-> _is_too_old(publish_time, now),
                     kept |-> FundingKeeps(publish_time, now)]>>
    /\ pc' = "returned"
    /\ UNCHANGED <<job, bot,
                   config, seen_uids, all_news, total_count, idx, kw,
                   news_items, feed, all_items, requests, accepted,
                   dedup_log, events, matched, by_industry,
                   funding_requests, outcome>>

\* the two classifiers on title + summary, and fetch_from_rss on an entry
\* that carries them
CallClassify ==
    /\ pc = "call"
    /\ \E title \in ClassifyTitles, summary \in ClassifySummaries :
         calls' = <<[op |-> "classify", text |-> title \o summary,
                     news |-> _match_industry(title \o summary),
                     funding |-> FundingMatchIndustry(title \o summary),
                     rss |-> RssItem(Raw(title, Url3, summary, <<>>, <<>>),
                                     RSS_FEEDS[1], now)]>>
    /\ pc' = "returned"
    /\ UNCHANGED <<job, bot,
                   config, seen_uids, all_news, total_count, idx, kw,
                   news_items, feed, all_items, requests, accepted,
                   dedup_log, events, matched, by_industry,
                   funding_requests, outcome>>

NextCalls ==
    \/ CallNewsCheck
    \/ CallFundingCheck
    \/ CallClassify

SpecCalls == InitCalls /\ [][NextCalls]_vars

\* ========================================================================
\* Properties
\* ========================================================================
LogIdx == 1..Len(dedup_log)
Verdict(k) == dedup_log[k].verdict
Fed(k) == dedup_log[k].item

\* ------------------------------------------------------------------------
\* C1: _deduplicate never records the fingerprint of a stale item:
\* seen_uids holds exactly the fingerprints of the accepted items, and an
\* item that is not stale is accepted unless an item of the same title was
\* accepted before it, also when a stale item of that title came earlier.
\* ------------------------------------------------------------------------
C1_StaleNeverRecorded ==
    /\ seen_uids = {uid(Fed(k)) : k \in {j \in LogIdx : Verdict(j) = "accepted"}}
    /\ \A k \in LogIdx :
         ~_is_news_too_old(Fed(k), now) =>
            \/ Verdict(k) = "accepted"
            \/ \E j \in 1..(k - 1) :
                 Verdict(j) = "accepted" /\ Fed(j).title = Fed(k).title

\* a stale item was dropped and a later item of the same title accepted
C1_Witness ==
    \E j, k \in LogIdx :
        /\ j < k
        /\ Fed(j).title = Fed(k).title
        /\ Verdict(j) = "too_old"
        /\ Verdict(k) = "accepted"

\* ------------------------------------------------------------------------
\* C2: j and k are the first two times an item is handed to _deduplicate
\* ------------------------------------------------------------------------
FirstTwo(j, k) ==
    /\ j < k
    /\ Fed(j) = Fed(k)
    /\ \A i \in 1..(k - 1) : i # j => Fed(i).title # Fed(j).title

\* C2 as claimed: the same item handed to _deduplicate twice in one run is
\* accepted the first time and rejected the second time.
C2_AcceptedOnceThenRejected ==
    \A j, k \in LogIdx :
        FirstTwo(j, k) => Verdict(j) = "accepted" /\ Verdict(k) # "accepted"

\* C2 as amended: the same item handed to _deduplicate twice in one run is
\* accepted the first time and rejected as seen the second time when it is
\* not stale, and dropped as too old both times when it is stale; no title
\* is accepted twice.
C2_AcceptedOnceUnlessStale ==
    /\ \A j, k \in LogIdx :
         FirstTwo(j, k) =>
            IF _is_news_too_old(Fed(j), now)
            THEN Verdict(j) = "too_old" /\ Verdict(k) = "too_old"
            ELSE Verdict(j) = "accepted" /\ Verdict(k) = "seen"
    /\ \A j, k \in LogIdx :
         (j < k /\ Verdict(j) = "accepted" /\ Verdict(k) = "accepted")
            => Fed(j).title # Fed(k).title

\* one item handed over twice in one call and once more in a later call
C2_Witness ==
    \E j, k, l \in LogIdx :
        /\ FirstTwo(j, k) /\ k < l /\ Fed(l) = Fed(j)
        /\ dedup_log[j].call = dedup_log[k].call
        /\ dedup_log[l].call # dedup_log[j].call
        /\ Verdict(j) = "accepted" /\ Verdict(k) = "seen"
        /\ Verdict(l) = "seen"

\* ------------------------------------------------------------------------
\* The mapping fetch_news returns
\* ------------------------------------------------------------------------
\* the places of a mapping: entry i, item k
Places(d) ==
    UNION {{<<i, k>> : k \in 1..Len(d[i].value)} : i \in 1..Len(d)}
At(d, p) == d[p[1]].value[p[2]]

IsRssItem(item) == \E f \in 1..Len(RSS_FEEDS) : item.source = RSS_FEEDS[f]

\* the items _deduplicate accepted for a label, in acceptance order
AcceptedFor(label) == SelectSeq(accepted, LAMBDA item : item.industry = label)

\* ------------------------------------------------------------------------
\* C3: no two items of the mapping fetch_news returns, under one label or
\* under two, have the same title.
\* ------------------------------------------------------------------------
C3_NoDuplicateTitles ==
    pc = "done" =>
        \A p, q \in Places(all_news) :
            p # q => At(all_news, p).title # At(all_news, q).title

\* an RSS entry was classified under one label while its title is in the
\* mapping under another label only
C3_Witness ==
    /\ pc = "done"
    /\ \E k \in 1..Len(all_items) :
         /\ \E p \in Places(all_news) :
              /\ At(all_news, p).title = all_items[k].title
              /\ all_news[p[1]].key # all_items[k].industry
         /\ \A p \in Places(all_news) :
              At(all_news, p).title = all_items[k].title
                 => all_news[p[1]].key # all_items[k].industry

\* ------------------------------------------------------------------------
\* C4: the fingerprint depends on the title alone: items of one title have
\* one fingerprint, and items of two fingerprints have two titles.
\* ------------------------------------------------------------------------
C4_UidIsFunctionOfTitle ==
    \A j, k \in LogIdx :
        /\ Fed(j).title = Fed(k).title => uid(Fed(j)) = uid(Fed(k))
        /\ uid(Fed(j)) # uid(Fed(k)) => Fed(j).title # Fed(k).title

\* two items of one title that differ in every other field
C4_Witness ==
    \E j, k \in LogIdx :
        /\ Fed(j).title = Fed(k).title
        /\ Fed(j).url # Fed(k).url
        /\ Fed(j).source # Fed(k).source
        /\ Fed(j).industry # Fed(k).industry
        /\ Fed(j).summary # Fed(k).summary
        /\ Fed(j).publish_time # Fed(k).publish_time
        /\ Fed(j).fetched_at # Fed(k).fetched_at

\* ------------------------------------------------------------------------
\* C5 as claimed: the mapping one run returns holds no more than
\* MAX_TOTAL_NEWS items.
\* ------------------------------------------------------------------------
C5_TotalWithinCap ==
    pc = "done" => CountItems(all_news) <= MAX_TOTAL_NEWS

\* ------------------------------------------------------------------------
\* C6 as claimed: the overflow over MAX_TOTAL_NEWS is cut from the labels
\* declared last: each label keeps its first MAX_NEWS_PER_INDUSTRY accepted
\* items, as far as the labels declared before it leave room under the cap.
\* ------------------------------------------------------------------------
RECURSIVE KeptUnderCap(_)
KeptUnderCap(i) ==
    LET want == Len(Prefix(AcceptedFor(INDUSTRIES[i].name),
                           MAX_NEWS_PER_INDUSTRY))
        RECURSIVE Before(_)
        Before(j) == IF j = 0 THEN 0 ELSE KeptUnderCap(j) + Before(j - 1)
        room == MAX_TOTAL_NEWS - Before(i - 1)
    IN  IF want <= room THEN want ELSE IF room > 0 THEN room ELSE 0

C6_OverflowCutFromLast ==
    pc = "done" =>
        \A i \in 1..Len(INDUSTRIES) :
            Len(Get(all_news, INDUSTRIES[i].name)) = KeptUnderCap(i)

\* ------------------------------------------------------------------------
\* C7: once total_count has reached MAX_TOTAL_NEWS no step of the run sends
\* a request to Sogou, Baidu or Bing.
\* ------------------------------------------------------------------------
C7_NoCallAfterLimit ==
    [][total_count >= MAX_TOTAL_NEWS => requests' = requests]_vars

\* the run ended with the cap reached and labels left that got no request
C7_Witness ==
    /\ pc = "done"
    /\ total_count >= MAX_TOTAL_NEWS
    /\ idx <= Len(INDUSTRIES)
    /\ requests[1] = [sogou |-> 1, baidu |-> 2, bing |-> 1]
    /\ \A i \in idx..Len(INDUSTRIES) : requests[i] = NoRequests[i]

\* ------------------------------------------------------------------------
\* C8: every label of the returned mapping holds the first
\* MAX_NEWS_PER_INDUSTRY items accepted for it, in acceptance order, and no
\* other label is in the mapping.
\* ------------------------------------------------------------------------
C8_FirstAcceptedPerLabel ==
    pc = "done" =>
        /\ \A i \in 1..Len(INDUSTRIES) :
             Get(all_news, INDUSTRIES[i].name)
               = Prefix(AcceptedFor(INDUSTRIES[i].name), MAX_NEWS_PER_INDUSTRY)
        /\ \A e \in 1..Len(all_news) :
             /\ \E i \in 1..Len(INDUSTRIES) :
                  all_news[e].key = INDUSTRIES[i].name
             /\ Len(all_news[e].value) <= MAX_NEWS_PER_INDUSTRY

\* a searched label and a label that got its first items from the RSS
\* merge were both offered more than MAX_NEWS_PER_INDUSTRY items
C8_Witness ==
    /\ pc = "done"
    /\ \E i, j \in 1..Len(INDUSTRIES) :
         /\ requests[i].bing = 1
         /\ Len(AcceptedFor(INDUSTRIES[i].name)) > MAX_NEWS_PER_INDUSTRY
         /\ requests[j] = NoRequests[j]
         /\ Len(AcceptedFor(INDUSTRIES[j].name)) > MAX_NEWS_PER_INDUSTRY
         /\ Has(all_news, INDUSTRIES[j].name)

\* ------------------------------------------------------------------------
\* C9 as claimed: every item retained under a label is one the classifier
\* puts under that label.
\* ------------------------------------------------------------------------
Classified(item) == _match_industry(item.title \o item.summary)

DateInWindow(text, at) ==
    LET DateFresh(pattern) ==
            LET m == re_search(pattern, text)
            IN  /\ m.ok
                /\ ValidDate(ToInt(Group(m, text, 1)), ToInt(Group(m, text, 3)),
                             ToInt(Group(m, text, 5)))
                /\ ~MidnightBefore(ToInt(Group(m, text, 1)),
                                   ToInt(Group(m, text, 3)),
                                   ToInt(Group(m, text, 5)),
                                   at, NEWS_MAX_AGE_DAYS)
    IN  DateFresh(ReDateCn) \/ DateFresh(ReDateIso)

PublishTimeFresh(text, at) ==
    \/ re_search(<<DPlus, Ws(0), Lit(xiao), Lit(shi), Lit(qian)>>, text).ok
    \/ re_search(<<DPlus, Ws(0), Lit(fen), Lit(zhong), Lit(qian)>>, text).ok
    \/ DateInWindow(text, at)

Returned(op) == pc = "returned" /\ calls # <<>> /\ calls[1].op = op

\* summaries without a date hint
NoHintSummaries == {<<>>, SummaryPlain}

\* C11: for an item whose publish_time is "N days ago" and whose summary has
\* no date hint, _is_news_too_old returns true exactly when
\* N > NEWS_MAX_AGE_DAYS, and _deduplicate keeps the item exactly when it
\* returns false; for "N months ago", N >= 1, it returns true
C11_RelativeTimeBoundary ==
    (Returned("news") /\ calls[1].summary \in NoHintSummaries) =>
        /\ \A n \in 0..MaxAgo :
             calls[1].publish_time = DaysAgo(n) =>
                 /\ calls[1].too_old <=> n > NEWS_MAX_AGE_DAYS
                 /\ calls[1].kept <=> n <= NEWS_MAX_AGE_DAYS
        /\ \A n \in 1..MaxAgo :
             calls[1].publish_time = MonthsAgo(n) =>
                 calls[1].too_old /\ ~calls[1].kept

\* "4 days ago" with an empty summary was found stale and dropped
C11_Witness ==
    /\ Returned("news")
    /\ calls[1].summary = <<>>
    /\ calls[1].publish_time = DaysAgo(NEWS_MAX_AGE_DAYS + 1)
    /\ calls[1].too_old
    /\ ~calls[1].kept

\* the date t = <<y, m, d>> is a calendar date
IsDate(t) == ValidDate(t[1], t[2], t[3])

\* midnight of the date t is later than the moment at
LaterDate(t, at) ==
    IsDate(t) /\ Ordinal(t[1], t[2], t[3]) > Ordinal(at.year, at.month, at.day)

\* the month t = <<y, m>> counted from year 0
MonthIndex(y, m) == 12 * y + m - 1

\* the month t = <<y, m>> is a calendar month later than the month of at
LaterMonth(t, at) ==
    t[2] \in 1..12 /\ MonthIndex(t[1], t[2]) > MonthIndex(at.year, at.month)

\* C12 as claimed: a date in the future is never stale in either check: a
\* full date later than now in the news check and in the funding check, and
\* a YYYY-MM later than the current month, of this or of a later year, in
\* the funding check
C12_FutureNeverStale ==
    /\ (Returned("news") /\ calls[1].summary \in NoHintSummaries) =>
           \A t \in PageDates :
               (LaterDate(t, now) /\ calls[1].publish_time
                    \in {IsoDate(t[1], t[2], t[3]), CnDate(t[1], t[2], t[3])})
               => ~calls[1].too_old
    /\ Returned("funding") =>
           /\ \A t \in PageDates :
                  (LaterDate(t, now)
                   /\ calls[1].publish_time = IsoDate(t[1], t[2], t[3]))
                  => ~calls[1].too_old
           /\ \A t \in PageMonths :
                  (LaterMonth(t, now)
                   /\ calls[1].publish_time = YearMonth(t[1], t[2]))
                  => ~calls[1].too_old

\* C13: for a YYYY-MM of a calendar month not later than the current month,
\* _is_too_old returns false exactly when the month is the current month or
\* the one before it (December of the year before in January), whatever
\* the day of the month
C13_PartialDateTwoMonths ==
    Returned("funding") =>
        \A t \in PageMonths :
            (t[2] \in 1..12 /\ ~LaterMonth(t, now)
             /\ calls[1].publish_time = YearMonth(t[1], t[2]))
            => (calls[1].too_old <=>
                    MonthIndex(now.year, now.month)
                        - MonthIndex(t[1], t[2]) >= 2)

\* in January, December of the year before was found fresh
C13_Witness ==
    /\ Returned("funding")
    /\ now.month = 1
    /\ calls[1].publish_time = YearMonth(now.year - 1, 12)
    /\ ~calls[1].too_old
    /\ calls[1].kept

\* midnight of the date t is strictly before at - days
BeforeCutoff(t, at, days) ==
    LET diff == Ordinal(t[1], t[2], t[3])
                    - (Ordinal(at.year, at.month, at.day) - days)
        seconds == (at.hour * 60 + at.minute) * 60 + at.second
    IN  \/ diff * 86400 < seconds
        \/ diff * 86400 = seconds /\ at.microsecond > 0

NonDates ==
    {IsoDate(t[1], t[2], t[3]) : t \in {u \in PageDates : ~IsDate(u)}}
    \cup {CnDate(t[1], t[2], t[3]) : t \in {u \in PageDates : ~IsDate(u)}}
NonMonths ==
    {YearMonth(t[1], t[2]) : t \in {u \in PageMonths : u[2] \notin 1..12}}

\* C15 as claimed: an item whose publish_time and summary carry no date
\* (empty, free text, or a date-shaped text that names no calendar date) is
\* never found stale: _deduplicate keeps it, and the funding parsers keep
\* an event with such a publish_time
C15_NoDateNeverStale ==
    /\ (Returned("news") /\ calls[1].summary \in NoHintSummaries
        /\ calls[1].publish_time \in FreeTexts \cup NonDates)
           => ~calls[1].too_old /\ calls[1].kept
    /\ (Returned("funding")
        /\ calls[1].publish_time \in FreeTexts \cup NonDates \cup NonMonths)
           => ~calls[1].too_old /\ calls[1].kept

\* some keyword of the entry occurs in text
HasKeyword(entry, text) ==
    \E k \in 1..Len(entry.keywords) : Contains(entry.keywords[k], text)

\* the label of the first entry of the table, in declaration order, that
\* has a keyword in text; None when there is none
FirstLabel(table, text) ==
    IF \E i \in 1..Len(table) : HasKeyword(table[i], text)
    THEN table[CHOOSE i \in 1..Len(table) :
                   /\ HasKeyword(table[i], text)
                   /\ \A j \in 1..(i - 1) : ~HasKeyword(table[j], text)].name
    ELSE None

\* C16: the classifier returns the label of the first taxonomy entry, in
\* declaration order, that has a keyword occurring in the text (None when
\* the news classifier finds none), wherever in the text the keywords stand
C16_FirstEntryWins ==
    Returned("classify") =>
        /\ calls[1].news = FirstLabel(INDUSTRIES, calls[1].text)
        /\ FirstLabel(INDUSTRIES, calls[1].text) # None
               => calls[1].funding = FirstLabel(INDUSTRIES, calls[1].text)

\* a text that names the second label's keyword ahead of the first label's
\* was given the first label by both classifiers
C16_Witness ==
    /\ Returned("classify")
    /\ calls[1].text = TitleChipAi
    /\ HasKeyword(INDUSTRIES[1], calls[1].text)
    /\ HasKeyword(INDUSTRIES[2], calls[1].text)
    /\ calls[1].news = INDUSTRIES[1].name
    /\ calls[1].funding = INDUSTRIES[1].name

\* C17: FundingFetcher._match_industry returns the primary first-match
\* label whenever a primary keyword occurs, whatever extended keywords
\* occur, and otherwise the first extended-table label, in the order of
\* that table, with a keyword in the text
C17_ExtendedOnlyAfterPrimary ==
    Returned("classify") =>
        calls[1].funding =
            IF FirstLabel(INDUSTRIES, calls[1].text) # None
            THEN FirstLabel(INDUSTRIES, calls[1].text)
            ELSE FirstLabel(extended_mapping, calls[1].text)

\* a text with an extended keyword of the first label and a primary keyword
\* of the second label was given the second label
C17_Witness ==
    /\ Returned("classify")
    /\ HasKeyword(extended_mapping[1], calls[1].text)
    /\ ~HasKeyword(INDUSTRIES[1], calls[1].text)
    /\ HasKeyword(INDUSTRIES[2], calls[1].text)
    /\ calls[1].funding = INDUSTRIES[2].name

\* C18 as claimed: an RSS entry whose title and summary hold no primary
\* keyword but an extended keyword is kept under the label the funding
\* classifier gives the same text
C18_RssFallsBackToExtended ==
    (Returned("classify")
     /\ FirstLabel(INDUSTRIES, calls[1].text) = None
     /\ FirstLabel(extended_mapping, calls[1].text) # None)
    => /\ calls[1].rss # <<>>
       /\ calls[1].rss[1].industry = calls[1].funding
       /\ calls[1].news = calls[1].funding

\* ------------------------------------------------------------------------
\* C19: no item is emitted with an empty label.  Every entry fetch_from_rss
\* keeps, and every event fetch_all returns, is one the classifier has a
\* label for, so an entry or event it returns None for is dropped; every
\* item in the result of fetch_news, and every event in the result of
\* fetch_funding_events, has a non-empty label that is one of the labels
\* of INDUSTRIES, the one it is filed under.
\* ------------------------------------------------------------------------
TaxonomyLabels == {INDUSTRIES[i].name : i \in 1..Len(INDUSTRIES)}

\* the text fetch_all hands to the classifier
EventText(event) == event.title \o event.summary \o event.company

\* the event is the one fetched as e, whatever its label
SameEvent(event, e) == [event EXCEPT !.industry = <<>>] = e

C19_NoEmptyLabel ==
    /\ \A k \in 1..Len(all_items) :
         /\ _match_industry(all_items[k].title \o all_items[k].summary)
                # None
         /\ all_items[k].industry # <<>>
    /\ \A p \in Places(all_news) :
         /\ At(all_news, p).industry # <<>>
         /\ At(all_news, p).industry \in TaxonomyLabels
         /\ At(all_news, p).industry = all_news[p[1]].key
    /\ \A k \in 1..Len(matched) :
         /\ matched[k].industry # <<>>
         /\ matched[k].industry \in TaxonomyLabels
    /\ \A k \in 1..Len(events) :
         FundingMatchIndustry(EventText(events[k])) = None
             => \A j \in 1..Len(matched) : ~SameEvent(matched[j], events[k])
    /\ \A p \in Places(by_industry) :
         /\ At(by_industry, p).industry # <<>>
         /\ At(by_industry, p).industry \in TaxonomyLabels
         /\ At(by_industry, p).industry = by_industry[p[1]].key
    /\ pc = "funding_done" =>
         \A k \in 1..Len(matched) :
             \E p \in Places(by_industry) : At(by_industry, p) = matched[k]

\* fetch_funding_events has returned; fetch_all had fetched an event the
\* classifier has no label for, and another that it returned
C19_Witness ==
    /\ pc = "funding_done"
    /\ \E k \in 1..Len(events) :
         FundingMatchIndustry(EventText(events[k])) = None
    /\ by_industry # <<>>

\* ------------------------------------------------------------------------
\* C20: each provider call is isolated
\* ------------------------------------------------------------------------
Min(a, b) == IF a < b THEN a ELSE b

\* the Baidu calls of industry i
BaiduCalls(i) == Min(BaiduKeywords, Len(INDUSTRIES[i].keywords))

\* every provider call of the run is issued: a run stands at one of its
\* steps or has returned; an industry that fetch_all has entered gets its
\* one Sogou call, its Baidu call per keyword and its one Bing call;
\* fetch_all enters every industry unless MAX_TOTAL_NEWS is reached;
\* fetch_news returns after every feed of RSS_FEEDS was parsed;
\* fetch_funding_events asks for the funding list and then the IPO list
EveryCallIssued ==
    /\ pc \in {"fetch_all", "baidu", "bing", "rss", "done", "funding_list",
               "ipo_list", "match", "funding_done"}
    /\ \A i \in 1..Len(INDUSTRIES) :
         /\ requests[i].sogou =
                (IF i < idx \/ (i = idx /\ pc \in {"baidu", "bing"})
                 THEN 1 ELSE 0)
         /\ requests[i].baidu =
                (IF i < idx THEN BaiduCalls(i)
                 ELSE IF i = idx /\ pc = "baidu" THEN kw - 1
                 ELSE IF i = idx /\ pc = "bing" THEN BaiduCalls(i)
                 ELSE 0)
         /\ requests[i].bing = (IF i < idx THEN 1 ELSE 0)
    /\ pc \in {"rss", "done"} =>
         idx > Len(INDUSTRIES) \/ LimitReached(total_count)
    /\ pc = "done" => feed = Len(RSS_FEEDS) + 1
    /\ pc = "ipo_list" => funding_requests = <<"funding_list">>
    /\ pc \in {"match", "funding_done"} =>
         funding_requests = <<"funding_list", "ipo_list">>

\* a step in which a provider met one of the outcomes of the set failing
\* adds no item of that provider, and leaves the items of the others to
\* be processed as they are
FailingAddsNothing(failing) ==
    outcome' \in failing =>
        /\ pc = "fetch_all" => news_items' = <<>>
        /\ pc = "baidu" => news_items' = news_items
        /\ pc = "bing" =>
             accepted' = accepted
                 \o _deduplicate(news_items, seen_uids, now).unique_items
        /\ pc = "rss" => all_items' = all_items
        /\ pc \in {"funding_list", "ipo_list"} => events' = events

\* C20 as stated: for any subset of providers that raise or return a
\* non-200 or malformed response (Sogou, Baidu per keyword, Bing, each RSS
\* feed, the funding list, the IPO list), every other provider call of the
\* run is still issued, the items of the non-failing providers are still
\* processed, and the failing provider contributes zero items
C20_ProviderIsolation ==
    /\ []EveryCallIssued
    /\ [][FailingAddsNothing({"raised", "non_200", "malformed",
                              "malformed_entries"})]_vars

\* C20 amended: the same, where an RSS feed that is flagged malformed
\* counts as failing only when nothing could be read of it; the entries
\* of a malformed feed that has entries are processed like any other's
C20_IsolationOfDetectedFailures ==
    /\ []EveryCallIssued
    /\ [][FailingAddsNothing({"raised", "non_200", "malformed"})]_vars

\* the last Baidu call of an industry failed, the run goes on to Bing and
\* holds the items of the calls before
C20_Witness ==
    /\ pc = "bing"
    /\ outcome \in {"raised", "non_200"}
    /\ news_items # <<>>

\* ------------------------------------------------------------------------
\* C30: the verdict does not depend on how an age is written
\* ------------------------------------------------------------------------
\* the date t = <<y, m, d>> lies n days before the day of the moment at
DaysBefore(t, at, n) ==
    IsDate(t) /\ Ordinal(at.year, at.month, at.day)
                     - Ordinal(t[1], t[2], t[3]) = n

\* C30: for every N and every time of day, an item whose publish_time is
\* the calendar date N days before today gets from _is_news_too_old the
\* verdict of the same item with the publish_time "N days ago"; both are
\* fresh for N = NEWS_MAX_AGE_DAYS
C30_SameVerdictForSameAge ==
    (Returned("news") /\ calls[1].summary \in NoHintSummaries) =>
        \A t \in PageDates, n \in 0..MaxAgo :
            (/\ DaysBefore(t, now, n)
             /\ calls[1].publish_time
                    \in {IsoDate(t[1], t[2], t[3]), CnDate(t[1], t[2], t[3])})
            => /\ calls[1].too_old =
                      _is_news_too_old(
                          NewsItem(TitleChip, Url5, SourceXinhua,
                                   INDUSTRIES[2].name, calls[1].summary,
                                   DaysAgo(n), now), now)
               /\ n = NEWS_MAX_AGE_DAYS => ~calls[1].too_old

\* ------------------------------------------------------------------------
\* C23: the labels of the result of fetch_news stand in the order of
\* INDUSTRIES
\* ------------------------------------------------------------------------
\* the place of a label in INDUSTRIES
TaxonomyIndex(label) ==
    CHOOSE i \in 1..Len(INDUSTRIES) : INDUSTRIES[i].name = label

\* C23: the labels of the mapping fetch_news returns appear in the
\* declaration order of INDUSTRIES, also when a label gets its first items
\* from the RSS merge after the search pass left it out
C23_LabelsInTaxonomyOrder ==
    pc = "done" =>
        \A i \in 1..Len(all_news), j \in 1..Len(all_news) :
            i < j => TaxonomyIndex(all_news[i].key)
                         < TaxonomyIndex(all_news[j].key)

\* ------------------------------------------------------------------------
\* C26: funding events are deduplicated
\* ------------------------------------------------------------------------
\* C26: in the result of fetch_funding_events no two events share a title,
\* also when a story is listed twice on a page or on both pages
C26_NoDuplicateFundingTitles ==
    pc = "funding_done" =>
        \A p \in Places(by_industry), q \in Places(by_industry) :
            p # q => At(by_industry, p).title # At(by_industry, q).title

\* ------------------------------------------------------------------------
\* C24: every provider path rejects titles shorter than the minimum length:
\* no item of the mapping fetch_news returns, whichever of the Sogou, Baidu,
\* Bing and RSS paths made it, has a title of fewer than MinTitleLen
\* characters
\* ------------------------------------------------------------------------
C24_NoShortTitleInOutput ==
    pc = "done" =>
        \A p \in Places(all_news) :
            Len(At(all_news, p).title) >= MinTitleLen

\* ------------------------------------------------------------------------
\* funding_fetcher.py: FundingEvent.highlight_text
\* ------------------------------------------------------------------------
MoneyBag == "u1f4b0"      \* U+1F4B0
Fire == "u1f525"          \* U+1F525
MiddleDot == "u00b7"      \* U+00B7
LeftParen == "uff08"      \* U+FF08, the full-width parenthesis
RightParen == "uff09"     \* U+FF09

highlight_text(evt) ==
    LET amount == IF evt.amount # <<>>
                  THEN <<LeftParen>> \o evt.amount \o <<RightParen>>
                  ELSE <<>>
    IN  <<MoneyBag, " ">> \o evt.company
        \o (IF evt.event_type = EventIpo
            THEN <<"I", "P", "O">> \o amount
            ELSE (IF evt.round # <<>>
                  THEN <<"u5b8c", "u6210">> \o evt.round ELSE <<>>)
                 \o amount)

\* ------------------------------------------------------------------------
\* summarizer.py
\* ------------------------------------------------------------------------
RECURSIVE JoinLines(_)
\* "\n".join(lines)
JoinLines(lines) ==
    IF lines = <<>> THEN <<>>
    ELSE IF Len(lines) = 1 THEN lines[1]
    ELSE lines[1] \o <<"\n">> \o JoinLines(Tail(lines))

\* f"<fire> {evt.highlight_text()}"
FundingLine(evt) == <<Fire, " ">> \o highlight_text(evt)

FallbackTitleMax == 50
FallbackTitleKept == 48
FallbackNewsMax == 5

\* f"<middle dot> {title}{source}"
NewsLine(item) ==
    LET stripped == Strip(item.title)
        title == IF Len(stripped) > FallbackTitleMax
                 THEN SubSeq(stripped, 1, FallbackTitleKept)
                          \o <<".", ".", ".">>
                 ELSE stripped
        source == IF item.source # <<>>
                  THEN <<LeftParen>> \o item.source \o <<RightParen>>
                  ELSE <<>>
    IN  <<MiddleDot, " ">> \o title \o source

\* a fallback that lists the news titles before the funding events
_summarize_fallback_news_first(industry, items, funding_events) ==
    JoinLines([k \in 1..Len(Prefix(items, FallbackNewsMax)) |->
                   NewsLine(items[k])]
              \o [k \in 1..Len(funding_events) |->
                      FundingLine(funding_events[k])])

\* _summarize_fallback: the funding events, then news_items[:5]
_summarize_fallback(industry, items, funding_events) ==
    JoinLines([k \in 1..Len(funding_events) |->
                   FundingLine(funding_events[k])]
              \o [k \in 1..Len(Prefix(items, FallbackNewsMax)) |->
                      NewsLine(items[k])])

RECURSIVE FindFrom(_, _, _)
\* the first position from i on where sub starts in text; 0 when none
FindFrom(sub, text, i) ==
    IF i + Len(sub) - 1 > Len(text) THEN 0
    ELSE IF SubSeq(text, i, i + Len(sub) - 1) = sub THEN i
    ELSE FindFrom(sub, text, i + 1)

ThinkOpen == <<"<", "t", "h", "i", "n", "k", ">">>
ThinkClose == <<"<", "/", "t", "h", "i", "n", "k", ">">>
\* three U+0060, the fence of a markdown code block
Fence == <<"u0060", "u0060", "u0060">>

RECURSIVE RemoveThinkBlocks(_)
\* re.sub(r'<think>.*?</think>', '', text, flags=re.DOTALL)
RemoveThinkBlocks(text) ==
    LET open == FindFrom(ThinkOpen, text, 1)
        close == IF open = 0 THEN 0
                 ELSE FindFrom(ThinkClose, text, open + Len(ThinkOpen))
    IN  IF close = 0 THEN text
        ELSE SubSeq(text, 1, open - 1)
             \o RemoveThinkBlocks(
                    SubSeq(text, close + Len(ThinkClose), Len(text)))

\* re.sub(r'<think>.*', '', text, flags=re.DOTALL)
RemoveOpenThink(text) ==
    LET open == FindFrom(ThinkOpen, text, 1)
    IN  IF open = 0 THEN text ELSE SubSeq(text, 1, open - 1)

RECURSIVE LowerRun(_, _)
\* the position after the run of [a-z] that starts at i
LowerRun(text, i) ==
    IF i <= Len(text) /\ text[i] \in Lower THEN LowerRun(text, i + 1)
    ELSE i

RECURSIVE RemoveFenceOpen(_, _)
\* re.sub(r'^<fence>[a-z]*\n?', '', text, flags=re.MULTILINE), from i on
RemoveFenceOpen(text, i) ==
    IF i > Len(text) THEN <<>>
    ELSE IF /\ (i = 1 \/ text[i - 1] = "\n")
            /\ i + 2 <= Len(text)
            /\ SubSeq(text, i, i + 2) = Fence
         THEN LET j == LowerRun(text, i + 3)
                  next == IF j <= Len(text) /\ text[j] = "\n"
                          THEN j + 1 ELSE j
              IN  RemoveFenceOpen(text, next)
         ELSE <<text[i]>> \o RemoveFenceOpen(text, i + 1)

\* a fence at i, followed by the end of a line
FenceEndsLine(text, i) ==
    /\ i + 2 <= Len(text)
    /\ SubSeq(text, i, i + 2) = Fence
    /\ (i + 3 > Len(text) \/ text[i + 3] = "\n")

RECURSIVE RemoveFenceClose(_, _)
\* re.sub(r'\n?<fence>$', '', text, flags=re.MULTILINE), from i on
RemoveFenceClose(text, i) ==
    IF i > Len(text) THEN <<>>
    ELSE IF text[i] = "\n" /\ FenceEndsLine(text, i + 1)
         THEN RemoveFenceClose(text, i + 4)
    ELSE IF FenceEndsLine(text, i) THEN RemoveFenceClose(text, i + 3)
    ELSE <<text[i]>> \o RemoveFenceClose(text, i + 1)

_clean_thinking_tags(text) ==
    LET cleaned == RemoveOpenThink(RemoveThinkBlocks(text))
        opened == RemoveFenceOpen(Strip(cleaned), 1)
        closed == RemoveFenceClose(Strip(opened), 1)
    IN  Strip(closed)

\* the reply of the chat model to one request: an exception, or the text
\* of response.choices[0].message.content
LlmText == <<"u884c", "u4e1a", "u52a8", "u6001">>
LlmReplies ==
    {[raised |-> TRUE, content |-> <<>>],
     [raised |-> FALSE,
      content |-> ThinkOpen \o <<"o", "k">> \o ThinkClose \o <<"\n">>
                  \o Fence \o <<"m", "d", "\n">> \o LlmText \o <<"\n">>
                  \o Fence]}

\* _summarize_with_llm, for a request that was answered
_summarize_with_llm(reply) == _clean_thinking_tags(reply.content)

RECURSIVE SummariesFrom(_, _, _, _, _, _)
\* the loop of generate_summaries from the k-th entry of news_by_industry
\* on; replies[k] is what the chat model does when asked about that entry
SummariesFrom(summaries, news_by, funding_by, use_llm, replies, k) ==
    IF k > Len(news_by) THEN summaries
    ELSE LET industry == news_by[k].key
             items == news_by[k].value
             funding_events == Get(funding_by, industry)
             summary ==
                 IF use_llm /\ ~replies[k].raised
                 THEN _summarize_with_llm(replies[k])
                 ELSE _summarize_fallback(industry, items, funding_events)
         IN  SummariesFrom(
                 IF items = <<>> THEN summaries
                 ELSE Put(summaries, industry, summary),
                 news_by, funding_by, use_llm, replies, k + 1)

\* generate_summaries(news_by_industry, funding_by_industry)
generate_summaries(news_by, funding_by, use_llm, replies) ==
    SummariesFrom(<<>>, news_by, funding_by, use_llm, replies, 1)

\* ------------------------------------------------------------------------
\* feishu_notifier.py: send_to_feishu(news_by_industry, webhook_url=None)
\* ------------------------------------------------------------------------
SendToFeishuParameters == {"news_by_industry", "webhook_url"}

\* the keyword arguments of the call in run_news_job
SendToFeishuKeywords == {"summaries", "funding_by_industry"}

\* a call raises TypeError when it passes a keyword that is no parameter
UnexpectedKeyword(parameters, keywords) == keywords \ parameters # {}

\* ------------------------------------------------------------------------
\* main.py: run_news_job(test_mode)
\* ------------------------------------------------------------------------
\* the caps of the runs of run_news_job that are explored
RunCap == 1

InitRun ==
    /\ MAX_NEWS_PER_INDUSTRY = RunCap
    /\ MAX_TOTAL_NEWS = RunCap
    /\ now = Now0
    /\ seen_uids = {}
    /\ pc = "fetch_all"
    /\ all_news = <<>>
    /\ total_count = 0
    /\ idx = 1
    /\ kw = 1
    /\ news_items = <<>>
    /\ feed = 1
    /\ all_items = <<>>
    /\ requests = NoRequests
    /\ accepted = <<>>
    /\ dedup_log = <<>>
    /\ events = <<>>
    /\ matched = <<>>
    /\ by_industry = <<>>
    /\ funding_requests = <<>>
    /\ calls = <<>>
    /\ outcome = "none"
    /\ job = NoJob
    /\ bot = NewBot

\* a function without the except clause: the exception leaves it
ReturnUncaught(raised, value) == IF raised THEN "raised" ELSE value

\* try: ... return value / except Exception: return False
ReturnOrFalse(raised, value) == IF raised THEN "False" ELSE value

\* a test that takes every mapping for one that holds news
NoNewsNever(news_by_industry) == FALSE

\* not news_by_industry
NoNews(news_by_industry) == news_by_industry = <<>>

\* fetch_news() has returned: if not news_by_industry: return False
JobCheckNews ==
    /\ pc = "done"
    /\ job.returned = "none"
    /\ IF NoNews(all_news)
       THEN /\ job' = [job EXCEPT !.returned = "False"]
            /\ pc' = "job_done"
       ELSE /\ job' = job
            /\ pc' = "job_funding"
    /\ outcome' = "none"
    /\ UNCHANGED <<bot, config, news, funding>>

\* what the two requests of fetch_funding_events meet in the runs that are
\* explored: both raise, or both are answered, the first with the longer
\* of the funding pages
JobFundingInputs ==
    {input \in FundingResponses \X IpoResponses :
        \/ input[1].raised /\ input[2].raised
        \/ /\ input[1].status_code = 200
           /\ input[2].status_code = 200
           /\ Len(input[1].results) # Len(input[2].results) + 1}

\* try: funding_by_industry = fetch_funding_events()
\* except Exception: the mapping stays empty
JobFetchFunding ==
    /\ pc = "job_funding"
    /\ \E input \in JobFundingInputs :
         LET fetched == _fetch_funding_list(input[1], now)
                            \o _fetch_ipo_list(input[2], now)
         IN  /\ events' = fetched
             /\ matched' = MatchEvents(fetched)
             /\ by_industry' = GroupByIndustry(<<>>, MatchEvents(fetched), 1)
             /\ outcome' = SearchOutcome(input[1])
    /\ funding_requests' = <<"funding_list", "ipo_list">>
    /\ job' = [job EXCEPT !.called = Append(@, "fetch_funding_events")]
    /\ pc' = "job_summarize"
    /\ UNCHANGED <<bot, config, news, calls>>

\* summaries = generate_summaries(news_by_industry, funding_by_industry)
JobSummarize ==
    /\ pc = "job_summarize"
    /\ \E use_llm \in BOOLEAN, replies \in [1..Len(all_news) -> LlmReplies] :
         /\ job' = [job EXCEPT
                       !.called = Append(@, "generate_summaries"),
                       !.summaries = generate_summaries(all_news, by_industry,
                                                        use_llm, replies)]
         /\ outcome' = "none"
    /\ pc' = "job_save"
    /\ UNCHANGED <<bot, config, news, funding>>

\* save_news_to_file(news_by_industry, summaries, funding_by_industry):
\* the snapshot is written, or the write raises and the function logs it
JobSave ==
    /\ pc = "job_save"
    /\ \E written \in BOOLEAN :
         outcome' = IF written THEN "ok" ELSE "raised"
    /\ job' = [job EXCEPT !.called = Append(@, "save_news_to_file")]
    /\ pc' = "job_send"
    /\ UNCHANGED <<bot, config, news, funding>>

\* if test_mode: return True; else: return send_to_feishu(...), where an
\* exception of the call goes to the except clause of run_news_job;
\* test_mode, the argument of run_news_job, is read here for the first time
JobSend ==
    /\ pc = "job_send"
    /\ \E test_mode \in BOOLEAN, sent \in BOOLEAN :
         LET raised == UnexpectedKeyword(SendToFeishuParameters,
                                         SendToFeishuKeywords)
         IN  IF test_mode
             THEN /\ job' = [job EXCEPT !.test_mode = TRUE,
                                        !.returned = "True"]
                  /\ outcome' = "none"
             ELSE /\ job' = [job EXCEPT
                       !.test_mode = FALSE,
                       !.called = IF raised THEN @
                                  ELSE Append(@, "send_to_feishu"),
                       !.returned = ReturnOrFalse(raised,
                                        IF sent THEN "True" ELSE "False")]
                  /\ outcome' = IF raised THEN "raised"
                                ELSE IF sent THEN "ok" ELSE "non_200"
    /\ pc' = "job_done"
    /\ UNCHANGED <<bot, config, news, funding>>

NextRun ==
    \/ Next
    \/ JobCheckNews
    \/ JobFetchFunding
    \/ JobSummarize
    \/ JobSave
    \/ JobSend

SpecRun == InitRun /\ [][NextRun]_vars

\* how far run_news_job has come: by the loop of fetch_all, by the loop of
\* fetch_from_rss, then by its own statements
RunRank ==
    CASE pc = "fetch_all" -> 4 * idx
      [] pc = "baidu" -> 4 * idx + kw
      [] pc = "bing" -> 4 * idx + 3
      [] pc = "rss" -> 4 * (Len(INDUSTRIES) + 2) + feed
      [] pc = "done" -> 4 * (Len(INDUSTRIES) + 2) + Len(RSS_FEEDS) + 2
      [] pc = "job_funding" -> 4 * (Len(INDUSTRIES) + 2) + Len(RSS_FEEDS) + 3
      [] pc = "job_summarize" -> 4 * (Len(INDUSTRIES) + 2) + Len(RSS_FEEDS) + 4
      [] pc = "job_save" -> 4 * (Len(INDUSTRIES) + 2) + Len(RSS_FEEDS) + 5
      [] pc = "job_send" -> 4 * (Len(INDUSTRIES) + 2) + Len(RSS_FEEDS) + 6
      [] pc = "job_done" -> 4 * (Len(INDUSTRIES) + 2) + Len(RSS_FEEDS) + 7

\* run_news_job stands at a statement: one of the actions can be taken
RunCanStep ==
    \/ pc \in {"fetch_all", "baidu", "bing", "rss"}
    \/ pc = "done" /\ job.returned = "none"
    \/ pc \in {"job_funding", "job_summarize", "job_save", "job_send"}

\* ------------------------------------------------------------------------
\* C21: when every provider of every label fails or yields nothing,
\* fetch_news returns the empty mapping, and at no time a mapping that
\* holds a label with an empty list; run_news_job then returns False and
\* has called neither the summarizer nor the snapshot write nor the Feishu
\* send
\* ------------------------------------------------------------------------
C21_NoDataIsSoftFailure ==
    /\ \A k \in 1..Len(all_news) : all_news[k].value # <<>>
    /\ (pc \notin {"fetch_all", "baidu", "bing", "rss"} /\ accepted = <<>>)
           => all_news = <<>>
    /\ (pc = "job_done" /\ all_news = <<>>)
           => /\ job.returned = "False"
              /\ \A k \in 1..Len(job.called) :
                     job.called[k] \notin {"generate_summaries",
                                           "save_news_to_file",
                                           "send_to_feishu"}

\* every provider of every label was asked, none gave an item, and the job
\* has returned
C21_Witness ==
    /\ pc = "job_done"
    /\ accepted = <<>>
    /\ \A i \in 1..Len(INDUSTRIES) : requests[i].bing = 1
    /\ feed > Len(RSS_FEEDS)
    /\ job.returned = "False"

\* ------------------------------------------------------------------------
\* C22: no failure escapes run_news_job: whatever the news providers, the
\* funding providers, the chat model, the snapshot write and the Feishu
\* send do, run_news_job comes to its end and returns True or False, no
\* exception; and when news was fetched the summaries are made of every
\* label of it, whatever the funding requests met. It comes to its end
\* because before the end a step can always be taken, and every step
\* brings it nearer to the end
\* ------------------------------------------------------------------------
C22_NoFailureEscapes ==
    /\ [](job.returned \in {"none", "True", "False"})
    /\ [](pc = "job_done" => job.returned \in {"True", "False"})
    /\ []((pc = "job_done" /\ all_news # <<>>)
            => /\ \E k \in 1..Len(job.called) :
                      job.called[k] = "generate_summaries"
               /\ \A k \in 1..Len(all_news) :
                      Has(job.summaries, all_news[k].key))
    /\ [](pc # "job_done" => RunCanStep)
    /\ [][RunRank' > RunRank]_vars

\* both funding requests raised, the chat model raised, the snapshot write
\* raised, and the job has returned with summaries of the news
C22_Witness ==
    /\ pc = "job_done"
    /\ all_news # <<>>
    /\ by_industry = <<>>
    /\ job.summaries # <<>>
    /\ ~job.test_mode
    /\ job.returned = "False"

\* ------------------------------------------------------------------------
\* C25: once generate_summaries has returned, every label that has funding
\* events has a summary; the summary holds the highlight text of each of
\* its events, and in it no line of a news title comes before a line of a
\* funding event; also for a label that has funding events and no news
\* ------------------------------------------------------------------------
RECURSIVE SplitLines(_, _)
\* text.split("\n"), with the line read so far
SplitLines(text, line) ==
    IF text = <<>> THEN <<line>>
    ELSE IF text[1] = "\n" THEN <<line>> \o SplitLines(Tail(text), <<>>)
    ELSE SplitLines(Tail(text), Append(line, text[1]))

FundingLinesFirst(summary) ==
    LET lines == SplitLines(summary, <<>>)
    IN  \A i, j \in 1..Len(lines) :
            (/\ i < j
             /\ lines[i] # <<>> /\ lines[i][1] = MiddleDot
             /\ lines[j] # <<>>)
            => lines[j][1] # Fire

C25_FundingHighlightsSummarized ==
    pc \in {"job_save", "job_send", "job_done"} =>
        \A k \in 1..Len(by_industry) :
            /\ Has(job.summaries, by_industry[k].key)
            /\ \A e \in 1..Len(by_industry[k].value) :
                   Contains(highlight_text(by_industry[k].value[e]),
                            Get(job.summaries, by_industry[k].key))
            /\ FundingLinesFirst(Get(job.summaries, by_industry[k].key))

\* ------------------------------------------------------------------------
\* C27: when run_news_job is not in test mode and fetch_news gave news, it
\* calls send_to_feishu, and returns True when the send succeeded and
\* False when it did not
\* ------------------------------------------------------------------------
C27_ReturnsWhatTheSendReturns ==
    (pc = "job_done" /\ ~job.test_mode /\ all_news # <<>>) =>
        /\ \E k \in 1..Len(job.called) : job.called[k] = "send_to_feishu"
        /\ job.returned = "True" <=> outcome = "ok"

\* ------------------------------------------------------------------------
\* feishu_bot.py: FeishuBot.handle_event
\* ------------------------------------------------------------------------
\* a dict is a record with the set of the keys it holds: d.get(key, default)
\* of a dict whose value under key, if it holds the key, is value
GetOr(d, key, value, default) == IF key \in d.keys THEN value ELSE default

Tencent == <<"u817e", "u8baf">>
Huawei == <<"u534e", "u4e3a">>
\* " @_user_1 <Huawei>": the text of a message that mentions the bot
MentionHuawei ==
    <<" ", "@", "_", "u", "s", "e", "r", "_", "1", " ">> \o Huawei
HelpWord == <<"H", "e", "l", "p">>

NoDict == [keys |-> {}]

\* the body of a v2.0 message event
V2Body(message_id, message_type, text) ==
    [keys |-> {"schema", "header", "event"},
     schema |-> "2.0",
     header |-> [keys |-> {"event_type"},
                 event_type |-> "im.message.receive_v1"],
     event |-> [keys |-> {"message", "sender"},
                message |-> [message_id |-> message_id,
                             message_type |-> message_type,
                             content |-> [text |-> text]]]]

\* the body of a v1.0 message event
V1Body(msg_type, text) ==
    [keys |-> {"event"},
     event |-> [keys |-> {"type", "msg_type", "text", "open_chat_id"},
                type |-> "message", msg_type |-> msg_type, text |-> text]]

\* the body of the URL verification request
ChallengeBody == [keys |-> {"challenge"}]

\* the bodies Feishu posts in the runs that are explored
BotBodies ==
    {V2Body("om_1", "text", Tencent),
     V2Body("om_2", "text", MentionHuawei),
     V2Body("om_3", "image", <<>>),
     V2Body("om_4", "text", HelpWord),
     V1Body("text", Tencent),
     V1Body("text", Huawei),
     ChallengeBody}

NoMessage == [message_id |-> "", message_type |-> "", content |-> [text |-> <<>>]]

\* _handle_v2_event: whether it calls _handle_message_event, and with
\* which message
V2Message(body) ==
    LET header == GetOr(body, "header", body.header, NoDict)
        event == GetOr(body, "event", body.event, NoDict)
    IN  IF GetOr(header, "event_type", header.event_type, "")
               = "im.message.receive_v1"
        THEN [called |-> TRUE, message |-> event.message]
        ELSE [called |-> FALSE, message |-> NoMessage]

\* _handle_v1_event: the v1.0 message converted
V1Message(body) ==
    LET event == GetOr(body, "event", body.event, NoDict)
    IN  IF GetOr(event, "type", event.type, "") = "message"
        THEN [called |-> TRUE,
              message |->
                  [message_id |-> GetOr(event, "msg_type", event.msg_type, ""),
                   message_type |->
                       GetOr(event, "msg_type", event.msg_type, "text"),
                   content |->
                       [text |-> GetOr(event, "text_without_at_bot",
                                       event.text_without_at_bot,
                                       GetOr(event, "text", event.text,
                                             <<>>))]]]
        ELSE [called |-> FALSE, message |-> NoMessage]

\* handle_event up to the call of _handle_message_event
Dispatch(body) ==
    IF "challenge" \in body.keys
    THEN [called |-> FALSE, message |-> NoMessage]
    ELSE IF GetOr(body, "schema", body.schema, "") = "2.0"
    THEN V2Message(body)
    ELSE IF "event" \in body.keys THEN V1Message(body)
    ELSE [called |-> FALSE, message |-> NoMessage]

RECURSIVE DigitRun(_, _)
\* the position after the run of digits that starts at i
DigitRun(text, i) ==
    IF i <= Len(text) /\ text[i] \in Digits THEN DigitRun(text, i + 1)
    ELSE i

UserMark == <<"@", "_", "u", "s", "e", "r", "_">>

RECURSIVE RemoveMentions(_, _)
\* re.sub(r'@_user_\d+', '', text), from i on
RemoveMentions(text, i) ==
    IF i > Len(text) THEN <<>>
    ELSE IF /\ i + Len(UserMark) <= Len(text)
            /\ SubSeq(text, i, i + Len(UserMark) - 1) = UserMark
            /\ text[i + Len(UserMark)] \in Digits
         THEN RemoveMentions(text, DigitRun(text, i + Len(UserMark)))
         ELSE <<text[i]>> \o RemoveMentions(text, i + 1)

\* str.lower() on the letters of the texts above
ToLower(text) ==
    [k \in 1..Len(text) |->
        CASE text[k] = "H" -> "h"
          [] text[k] = "I" -> "i"
          [] OTHER -> text[k]]

HelpWords ==
    {<<"h", "e", "l", "p">>, <<"u5e2e", "u52a9">>,
     <<"/", "h", "e", "l", "p">>, <<"u4f60", "u597d">>, <<"h", "i">>,
     <<"h", "e", "l", "l", "o">>}

\* what _handle_message_event does with a message it has not dropped:
\* "unsupported" and "help" are replies, "analyze" is the reply and the
\* thread of the analysis, "nothing" is the return on an empty text
MessageAction(message) ==
    LET stripped == Strip(message.content.text)
        text == Strip(RemoveMentions(stripped, 1))
    IN  IF message.message_type # "text" THEN "unsupported"
        ELSE IF stripped = <<>> THEN "nothing"
        ELSE IF ToLower(text) \in HelpWords THEN "help"
        ELSE "analyze"

\* the company name handed to the analysis
CompanyName(message) ==
    Strip(RemoveMentions(Strip(message.content.text), 1))

\* ------------------------------------------------------------------------
\* One FeishuBot and the calls of handle_event on it, each by a thread of
\* the web server; a call that reaches _handle_message_event stands before
\* the test of the id ("check"), before the add ("add"), before the test of
\* the size of the cache ("cut") or before the handling of the text
\* ("handle")
\* ------------------------------------------------------------------------
\* the calls of handle_event in a run, and those that run at a time
MaxDeliveries == 4
MaxConcurrent == 2

\* _max_cache_size and the number of ids kept when the cache is cut, which
\* are 1000 and 500 in the source, brought down to the size of the runs
CacheBound == 2
CacheKept == 1

InitBot ==
    /\ MAX_NEWS_PER_INDUSTRY = MaxPerIndustryCfg
    /\ MAX_TOTAL_NEWS = MaxTotalCfg
    /\ now = Now0
    /\ seen_uids = {}
    /\ pc = "bot"
    /\ all_news = <<>>
    /\ total_count = 0
    /\ idx = 1
    /\ kw = 1
    /\ news_items = <<>>
    /\ feed = 1
    /\ all_items = <<>>
    /\ requests = NoRequests
    /\ accepted = <<>>
    /\ dedup_log = <<>>
    /\ events = <<>>
    /\ matched = <<>>
    /\ by_industry = <<>>
    /\ funding_requests = <<>>
    /\ calls = <<>>
    /\ outcome = "none"
    /\ job = NoJob
    /\ bot = NewBot

Running ==
    Cardinality({c \in 1..Len(bot.handling) :
                    bot.handling[c].at # "returned"})

\* handle_event(body) is called and runs up to _handle_message_event
BotDeliver ==
    /\ pc = "bot"
    /\ Len(bot.handling) < MaxDeliveries
    /\ Running < MaxConcurrent
    /\ \E body \in BotBodies :
         bot' = [bot EXCEPT !.handling =
                    Append(@, [body |-> body,
                               message |-> Dispatch(body).message,
                               at |-> IF Dispatch(body).called
                                      THEN "check" ELSE "returned",
                               dropped |-> FALSE])]
    /\ UNCHANGED <<job, config, news, funding, pc, outcome>>

\* if message_id in self._processed_message_ids: return
BotCheck(c) ==
    /\ c \in 1..Len(bot.handling)
    /\ bot.handling[c].at = "check"
    /\ IF bot.handling[c].message.message_id \in bot.processed_message_ids
       THEN bot' = [bot EXCEPT !.handling[c].at = "returned",
                               !.handling[c].dropped = TRUE]
       ELSE bot' = [bot EXCEPT !.handling[c].at = "add"]
    /\ UNCHANGED <<job, config, news, funding, pc, outcome>>

\* self._processed_message_ids.add(message_id)
BotAdd(c) ==
    /\ c \in 1..Len(bot.handling)
    /\ bot.handling[c].at = "add"
    /\ bot' = [bot EXCEPT
                  !.processed_message_ids =
                      @ \cup {bot.handling[c].message.message_id},
                  !.handling[c].at = "cut"]
    /\ UNCHANGED <<job, config, news, funding, pc, outcome>>

\* if len(...) > self._max_cache_size: keep list(...)[-500:], the last ids
\* in the order in which the set happens to list them
BotCut(c) ==
    /\ c \in 1..Len(bot.handling)
    /\ bot.handling[c].at = "cut"
    /\ IF Cardinality(bot.processed_message_ids) > CacheBound
       THEN \E kept \in SUBSET bot.processed_message_ids :
              /\ Cardinality(kept) = CacheKept
              /\ bot' = [bot EXCEPT !.processed_message_ids = kept,
                                    !.handling[c].at = "handle"]
       ELSE bot' = [bot EXCEPT !.handling[c].at = "handle"]
    /\ UNCHANGED <<job, config, news, funding, pc, outcome>>

\* the rest of _handle_message_event: the reply, and for a company name
\* the thread of the analysis
BotHandle(c) ==
    /\ c \in 1..Len(bot.handling)
    /\ bot.handling[c].at = "handle"
    /\ LET message == bot.handling[c].message
           action == MessageAction(message)
           reply == [call |-> c, message_id |-> message.message_id,
                     kind |-> action]
           analysis == [call |-> c, message_id |-> message.message_id,
                        company_name |-> CompanyName(message)]
       IN  bot' = [bot EXCEPT
                      !.replies = IF action = "nothing" THEN @
                                  ELSE Append(@, reply),
                      !.analyses = IF action = "analyze"
                                   THEN Append(@, analysis) ELSE @,
                      !.handling[c].at = "returned"]
    /\ UNCHANGED <<job, config, news, funding, pc, outcome>>

NextBot ==
    \/ BotDeliver
    \/ \E c \in 1..MaxDeliveries : BotCheck(c)
    \/ \E c \in 1..MaxDeliveries : BotAdd(c)
    \/ \E c \in 1..MaxDeliveries : BotCut(c)
    \/ \E c \in 1..MaxDeliveries : BotHandle(c)

SpecBot == InitBot /\ [][NextBot]_vars

\* ------------------------------------------------------------------------
\* C28: FeishuBot starts at most one analysis, and sends at most one reply,
\* for a message_id, however the calls of handle_event follow each other or
\* run side by side, and also after the cache of processed ids was cut
\* ------------------------------------------------------------------------
C28_OneAnalysisPerMessageId ==
    /\ \A a, b \in 1..Len(bot.analyses) :
           a # b => bot.analyses[a].message_id # bot.analyses[b].message_id
    /\ \A a, b \in 1..Len(bot.replies) :
           a # b => bot.replies[a].message_id # bot.replies[b].message_id

\* ------------------------------------------------------------------------
\* C29: every text message with a company name that is delivered to
\* handle_event and was not delivered before, in the v1.0 or in the v2.0
\* format, gets a reply and an analysis once its call has returned
\* ------------------------------------------------------------------------
C29_NewMessageIsHandled ==
    \A c \in 1..Len(bot.handling) :
        (/\ bot.handling[c].at = "returned"
         /\ Dispatch(bot.handling[c].body).called
         /\ MessageAction(bot.handling[c].message) = "analyze"
         /\ \A d \in 1..(c - 1) :
                bot.handling[d].body # bot.handling[c].body)
        => /\ \E a \in 1..Len(bot.analyses) : bot.analyses[a].call = c
           /\ \E r \in 1..Len(bot.replies) : bot.replies[r].call = c

====
